---------------------------- MODULE Spec2Model ----------------------------
(***************************************************************************)
(* The RISC Zero backend of curve25519-dalek: field arithmetic modulo      *)
(* p = 2^255 - 19 on 256-bit values (backend/serial/risc0/field.rs).       *)
(*                                                                         *)
(* A U256 is the tuple of its 32 little-endian bytes, the layout of        *)
(* to_le_bytes / from_le_bytes; a Limb is the tuple of the 4 little-endian *)
(* bytes of a 32-bit word, so limb i of x is bytes 4i+1 .. 4i+4 of x.      *)
(* Every operator computes on bytes with explicit carries: no value of the *)
(* model exceeds 31 bits.                                                  *)
(***************************************************************************)
EXTENDS Integers, Sequences, FiniteSets, TLC

VARIABLES
  self,      \* the FieldElementR0 operated on (its U256, self.0)
  rhs,       \* the other operand (_rhs.0 of the binary operators)
  op,        \* the operation that produced this state ("init" at the start)
  lhs,       \* the value self held before that operation
  prev,      \* the operation before that one
  arg,       \* its scalar argument: k of pow2k, choice of conditional_select
  input,     \* the 32 bytes handed to from_bytes
  out,       \* the bytes as_bytes returned (<<>> when it returned nothing)
  carry7,    \* value of the last carry of add_assign's chain
  borrow,    \* borrow out of add_assign's final wrapping_sub
  panicked,  \* an assert! failed: the program has aborted
  host,      \* how the accelerator's host answers a denormalized multiply
  origin,    \* how the first values were built: "constants", "raw", "scalar",
             \* "tables" or "build"
  budget,    \* operations the run may still perform
  debug_assertions,  \* the build checks its debug_assert!s
  cursor     \* the place a reading of the precomputed tables has come to

vars == <<self, rhs, op, lhs, prev, arg, input, out, carry7, borrow, panicked,
          host, origin, budget, debug_assertions, cursor>>

---------------------------------------------------------------------------
(* crypto_bigint::U256 and Limb                                            *)

Byte == 0..255

\* U256::from_be_hex, the 64 hex digits given as 16 groups of four
from_be_hex(h) ==
  [i \in 1..32 |->
     LET g == h[((32 - i) \div 2) + 1]
     IN  IF (32 - i) % 2 = 0 THEN g \div 256 ELSE g % 256]

\* U256::from_le_bytes / to_le_bytes: the byte tuple is the representation
from_le_bytes(data) == data

\* U256::to_be_bytes, the other byte order: what as_bytes must not return
to_be_bytes(x) == [i \in 1..32 |-> x[33 - i]]

to_le_bytes(x) == x

U256_ZERO == [i \in 1..32 |-> 0]
U256_ONE == [i \in 1..32 |-> IF i = 1 THEN 1 ELSE 0]

\* x.as_limbs()[i] / x.as_words()[i], i in 0..7
limb(x, i) == <<x[4 * i + 1], x[4 * i + 2], x[4 * i + 3], x[4 * i + 4]>>

\* U256::from([l0, .., l7]) / U256::from_words
from_limbs(l) == l[1] \o l[2] \o l[3] \o l[4] \o l[5] \o l[6] \o l[7] \o l[8]

LIMB_ZERO == <<0, 0, 0, 0>>

\* the numeric value of a limb known to be small (a carry, a mask)
small(l) == IF l[2] = 0 /\ l[3] = 0 /\ l[4] = 0 THEN l[1] ELSE 256

\* Limb::adc(a, b, carry): a + b + carry as a double word, (low word, high word)
adc(a, b, carry) ==
  LET s1 == a[1] + b[1] + carry[1]
      s2 == a[2] + b[2] + carry[2] + (s1 \div 256)
      s3 == a[3] + b[3] + carry[3] + (s2 \div 256)
      s4 == a[4] + b[4] + carry[4] + (s3 \div 256)
  IN  << <<s1 % 256, s2 % 256, s3 % 256, s4 % 256>>, <<s4 \div 256, 0, 0, 0>> >>

\* Limb::wrapping_add(a, b): a + b modulo 2^32
limb_wrapping_add(a, b) ==
  LET s1 == a[1] + b[1]
      s2 == a[2] + b[2] + (s1 \div 256)
      s3 == a[3] + b[3] + (s2 \div 256)
      s4 == a[4] + b[4] + (s3 \div 256)
  IN  <<s1 % 256, s2 % 256, s3 % 256, s4 % 256>>

\* Limb::sbb(a, b, borrow): a - b - borrow, (low word, borrow out as 0 or 1)
sbb(a, b, bw) ==
  LET d1 == a[1] - b[1] - bw
      d2 == a[2] - b[2] - (IF d1 < 0 THEN 1 ELSE 0)
      d3 == a[3] - b[3] - (IF d2 < 0 THEN 1 ELSE 0)
      d4 == a[4] - b[4] - (IF d3 < 0 THEN 1 ELSE 0)
  IN  << <<d1 % 256, d2 % 256, d3 % 256, d4 % 256>>, IF d4 < 0 THEN 1 ELSE 0 >>

\* Uint::sbb over the eight limbs: <<a - b modulo 2^256, borrow out>>
sbb_u256(a, b) ==
  LET r0 == sbb(limb(a, 0), limb(b, 0), 0)
      r1 == sbb(limb(a, 1), limb(b, 1), r0[2])
      r2 == sbb(limb(a, 2), limb(b, 2), r1[2])
      r3 == sbb(limb(a, 3), limb(b, 3), r2[2])
      r4 == sbb(limb(a, 4), limb(b, 4), r3[2])
      r5 == sbb(limb(a, 5), limb(b, 5), r4[2])
      r6 == sbb(limb(a, 6), limb(b, 6), r5[2])
      r7 == sbb(limb(a, 7), limb(b, 7), r6[2])
  IN  << from_limbs(<<r0[1], r1[1], r2[1], r3[1], r4[1], r5[1], r6[1], r7[1]>>),
         r7[2] >>

\* U256::wrapping_sub
wrapping_sub(a, b) == sbb_u256(a, b)[1]

\* U256::ct_lt(a, b) as a boolean: the subtraction a - b borrows
ct_lt(a, b) == sbb_u256(a, b)[2] = 1

\* a 32-bit word times a u8 mask cast to u32 (the product stays in 32 bits
\* for the masks 0 and 1 that add_assign forms)
limb_times(a, m) ==
  LET s1 == a[1] * m
      s2 == a[2] * m + (s1 \div 256)
      s3 == a[3] * m + (s2 \div 256)
      s4 == a[4] * m + (s3 \div 256)
  IN  <<s1 % 256, s2 % 256, s3 % 256, s4 % 256>>

---------------------------------------------------------------------------
(* The accelerator: risc0::modmul_u256_denormalized(a, b, modulus).        *)
(* The product a * b is formed in full (64 bytes) and reduced modulo the   *)
(* modulus; a cooperative host returns the residue in [0, modulus).        *)

Zeros(n) == [i \in 1..n |-> 0]

\* column k of the schoolbook product; b is padded so that digit j (0-based)
\* sits at index 32 + j, with zeros on both sides
Col(a, b, k) ==
  a[1] * b[k - 0] + a[2] * b[k - 1] + a[3] * b[k - 2] + a[4] * b[k - 3] +
  a[5] * b[k - 4] + a[6] * b[k - 5] + a[7] * b[k - 6] + a[8] * b[k - 7] +
  a[9] * b[k - 8] + a[10] * b[k - 9] + a[11] * b[k - 10] + a[12] * b[k - 11] +
  a[13] * b[k - 12] + a[14] * b[k - 13] + a[15] * b[k - 14] + a[16] * b[k - 15] +
  a[17] * b[k - 16] + a[18] * b[k - 17] + a[19] * b[k - 18] + a[20] * b[k - 19] +
  a[21] * b[k - 20] + a[22] * b[k - 21] + a[23] * b[k - 22] + a[24] * b[k - 23] +
  a[25] * b[k - 24] + a[26] * b[k - 25] + a[27] * b[k - 26] + a[28] * b[k - 27] +
  a[29] * b[k - 28] + a[30] * b[k - 29] + a[31] * b[k - 30] + a[32] * b[k - 31]

\* carry propagation over columns k .. Len(cols), floor division so that
\* negative columns borrow: the bytes, followed by the carry out
RECURSIVE Propagate(_, _, _)
Propagate(cols, k, c) ==
  IF k > Len(cols) THEN <<c>>
  ELSE <<(cols[k] + c) % 256>> \o Propagate(cols, k + 1, (cols[k] + c) \div 256)

\* the 512-bit product a * b as 64 little-endian bytes
wide_mul(a, b) ==
  LET bp == Zeros(31) \o b \o Zeros(32)
      cols == [k \in 1..64 |-> Col(a, bp, k + 31)]
  IN  SubSeq(Propagate(cols, 1, 0), 1, 64)

\* column j of x[1..32] + sum over k of x[32+k] * t[k], where x is 64 bytes
\* and t[k] = 2^(8(31+k)) mod n
FoldCol(x, t, j) ==
  x[j] +
  x[33] * t[1][j] + x[34] * t[2][j] + x[35] * t[3][j] + x[36] * t[4][j] +
  x[37] * t[5][j] + x[38] * t[6][j] + x[39] * t[7][j] + x[40] * t[8][j] +
  x[41] * t[9][j] + x[42] * t[10][j] + x[43] * t[11][j] + x[44] * t[12][j] +
  x[45] * t[13][j] + x[46] * t[14][j] + x[47] * t[15][j] + x[48] * t[16][j] +
  x[49] * t[17][j] + x[50] * t[18][j] + x[51] * t[19][j] + x[52] * t[20][j] +
  x[53] * t[21][j] + x[54] * t[22][j] + x[55] * t[23][j] + x[56] * t[24][j] +
  x[57] * t[25][j] + x[58] * t[26][j] + x[59] * t[27][j] + x[60] * t[28][j] +
  x[61] * t[29][j] + x[62] * t[30][j] + x[63] * t[31][j] + x[64] * t[32][j]

\* F applied to the value of v, which is computed once
Bind(v, F(_)) == CHOOSE r \in {F(x) : x \in {v}} : TRUE

\* an underestimate (at least 1) of the quotient of lo + c * 2^256 by n, from
\* the leading 16 bits of n and the bits of the dividend above them
quotient_estimate(lo, c, n) ==
  LET est == (lo[31] + 256 * lo[32] + 65536 * c) \div (n[31] + 256 * n[32] + 1)
  IN  IF est < 1 THEN 1 ELSE IF est > 1048576 THEN 1048576 ELSE est

\* (lo + c * 2^256) mod n, for 32 bytes lo, a small c >= 0 and n > 0: subtract
\* q * n for the estimate q until the value is below n
RECURSIVE reduce_below(_, _, _)
reduce_below(lo, c, n) ==
  IF c = 0 /\ ct_lt(lo, n) THEN lo
  ELSE Bind(quotient_estimate(lo, c, n), LAMBDA q :
         Bind(Propagate([j \in 1..32 |-> lo[j] - q * n[j]], 1, 0), LAMBDA d :
           reduce_below(SubSeq(d, 1, 32), c + d[33], n)))

\* <<2^256 mod n, 2^264 mod n, .., 2^504 mod n>>, each from the one before
RECURSIVE pow_table(_, _, _)
pow_table(last, k, n) ==
  IF k > 32 THEN <<>>
  ELSE Bind(reduce_below(<<0>> \o SubSeq(last, 1, 31), last[32], n), LAMBDA next :
         <<next>> \o pow_table(next, k + 1, n))

\* 2^248, the table's seed
TWO_POW_248 == [i \in 1..32 |-> IF i = 32 THEN 1 ELSE 0]

\* x mod n for a 64-byte x, with t = pow_table(TWO_POW_248, 1, n)
reduce_wide(x, t, n) ==
  Bind(Propagate([j \in 1..32 |-> FoldCol(x, t, j)], 1, 0), LAMBDA f :
    reduce_below(SubSeq(f, 1, 32), f[33], n))

\* (a * b) mod n
mulmod(a, b, t, n) == Bind(wide_mul(a, b), LAMBDA x : reduce_wide(x, t, n))

\* a + b for two U256: the 32 bytes of the sum, followed by the carry out
add_u256(a, b) == Propagate([j \in 1..32 |-> a[j] + b[j]], 1, 0)

\* what the host may hand back for the residue r: r itself when it cooperates,
\* r plus h times the modulus (while that still fits 256 bits) when it does not
RECURSIVE denormalized(_, _, _)
denormalized(r, n, h) ==
  IF h = 0 THEN r
  ELSE Bind(add_u256(r, n), LAMBDA s :
         IF s[33] = 0 THEN denormalized(SubSeq(s, 1, 32), n, h - 1) ELSE r)

---------------------------------------------------------------------------
(* field.rs                                                                *)

\* prime 2^255 - 19 which defines the field
P ==
  from_be_hex(<<\h7FFF, \hFFFF, \hFFFF, \hFFFF, \hFFFF, \hFFFF, \hFFFF, \hFFFF,
                \hFFFF, \hFFFF, \hFFFF, \hFFFF, \hFFFF, \hFFFF, \hFFFF, \hFFED>>)

\* zero minus the modulus, in wrapping 256-bit arithmetic
MODULUS_CORRECTION == wrapping_sub(U256_ZERO, P)

ZERO == U256_ZERO
ONE == U256_ONE
TWO ==
  from_be_hex(<<\h0000, \h0000, \h0000, \h0000, \h0000, \h0000, \h0000, \h0000,
                \h0000, \h0000, \h0000, \h0000, \h0000, \h0000, \h0000, \h0002>>)
MINUS_ONE ==
  from_be_hex(<<\h7FFF, \hFFFF, \hFFFF, \hFFFF, \hFFFF, \hFFFF, \hFFFF, \hFFFF,
                \hFFFF, \hFFFF, \hFFFF, \hFFFF, \hFFFF, \hFFFF, \hFFFF, \hFFEC>>)

\* the powers 2^256, 2^264, .., 2^504 modulo P, computed once
P_TABLE == pow_table(TWO_POW_248, 1, P)

\* constants::L, the order of the base point
L ==
  from_be_hex(<<\h1000, \h0000, \h0000, \h0000, \h0000, \h0000, \h0000, \h0000,
                \h14DE, \hF9DE, \hA2F7, \h9CD6, \h5812, \h631A, \h5CF5, \hD3ED>>)

\* the same powers modulo L, computed once
L_TABLE == pow_table(TWO_POW_248, 1, L)

mod_table(modulus) ==
  IF modulus = P THEN P_TABLE
  ELSE IF modulus = L THEN L_TABLE
  ELSE pow_table(TWO_POW_248, 1, modulus)

\* a multiply that is never normalized: the residue plus the modulus
modmul_u256_unreduced(a, b, modulus, h) ==
  Bind(mulmod(a, b, mod_table(modulus), modulus), LAMBDA r :
    denormalized(r, modulus, 1))

\* risc0::modmul_u256_denormalized(a, b, modulus); h is the host's choice
modmul_u256_denormalized(a, b, modulus, h) ==
  Bind(mulmod(a, b, mod_table(modulus), modulus), LAMBDA r :
    denormalized(r, modulus, h))

\* an addition without the correction: the sum modulo 2^256
add_assign_wrapping(slf, r) ==
  [val |-> SubSeq(add_u256(slf, r), 1, 32), carry7 |-> 0, borrow |-> 0,
   panic |-> FALSE]

\* a carry chain that keeps one bit of every carry, as a carry flag would
carry_chain_one_bit(slf, r) ==
  LET correction_limbs == [i \in 0..7 |-> limb(MODULUS_CORRECTION, i)]
      flag(s) == <<s[1], <<IF s[2][1] > 0 THEN 1 ELSE 0, 0, 0, 0>> >>
      s0 == flag(adc(limb(slf, 0), limb(r, 0), correction_limbs[0]))
      s1 == flag(adc(limb(slf, 1), limb(r, 1), limb_wrapping_add(s0[2], correction_limbs[1])))
      s2 == flag(adc(limb(slf, 2), limb(r, 2), limb_wrapping_add(s1[2], correction_limbs[2])))
      s3 == flag(adc(limb(slf, 3), limb(r, 3), limb_wrapping_add(s2[2], correction_limbs[3])))
      s4 == flag(adc(limb(slf, 4), limb(r, 4), limb_wrapping_add(s3[2], correction_limbs[4])))
      s5 == flag(adc(limb(slf, 5), limb(r, 5), limb_wrapping_add(s4[2], correction_limbs[5])))
      s6 == flag(adc(limb(slf, 6), limb(r, 6), limb_wrapping_add(s5[2], correction_limbs[6])))
      s7 == flag(adc(limb(slf, 7), limb(r, 7), limb_wrapping_add(s6[2], correction_limbs[7])))
  IN  <<s0, s1, s2, s3, s4, s5, s6, s7>>

\* the carrying addition of self and rhs with the correction added in:
\* (a0, carry0), .., (a7, carry7)
carry_chain(slf, r) ==
  LET correction_limbs == [i \in 0..7 |-> limb(MODULUS_CORRECTION, i)]
      s0 == adc(limb(slf, 0), limb(r, 0), correction_limbs[0])
      s1 == adc(limb(slf, 1), limb(r, 1), limb_wrapping_add(s0[2], correction_limbs[1]))
      s2 == adc(limb(slf, 2), limb(r, 2), limb_wrapping_add(s1[2], correction_limbs[2]))
      s3 == adc(limb(slf, 3), limb(r, 3), limb_wrapping_add(s2[2], correction_limbs[3]))
      s4 == adc(limb(slf, 4), limb(r, 4), limb_wrapping_add(s3[2], correction_limbs[4]))
      s5 == adc(limb(slf, 5), limb(r, 5), limb_wrapping_add(s4[2], correction_limbs[5]))
      s6 == adc(limb(slf, 6), limb(r, 6), limb_wrapping_add(s5[2], correction_limbs[6]))
      s7 == adc(limb(slf, 7), limb(r, 7), limb_wrapping_add(s6[2], correction_limbs[7]))
  IN  <<s0, s1, s2, s3, s4, s5, s6, s7>>

\* a correction that is subtracted whatever the carry
unmasked_correction(c) == MODULUS_CORRECTION

\* the correction the final subtraction removes, for the last carry c: words
\* 0 and 7 of MODULUS_CORRECTION times the mask 1 - c
masked_correction(c) ==
  LET mask == 1 - c
      c0 == limb_times(limb(MODULUS_CORRECTION, 0), mask)
      c7 == limb_times(limb(MODULUS_CORRECTION, 7), mask)
  IN  from_limbs(<<c0, LIMB_ZERO, LIMB_ZERO, LIMB_ZERO,
                   LIMB_ZERO, LIMB_ZERO, LIMB_ZERO, c7>>)

\* AddAssign::add_assign: [val: self.0 afterwards, carry7, borrow, panic]
add_assign(slf, r) ==
  Bind(carry_chain(slf, r), LAMBDA s :
    Bind(<<from_limbs(<<s[1][1], s[2][1], s[3][1], s[4][1],
                        s[5][1], s[6][1], s[7][1], s[8][1]>>),
           small(s[8][2])>>, LAMBDA a :
      IF ~(a[2] <= 1)
      THEN [val |-> a[1], carry7 |-> a[2], borrow |-> 0, panic |-> TRUE]
      ELSE Bind(sbb_u256(a[1], masked_correction(a[2])), LAMBDA d :
             [val |-> d[1], carry7 |-> a[2], borrow |-> d[2], panic |-> FALSE])))

\* an addition that decides on the carry whether to correct
add_assign_steps_branching(slf, r) ==
  Bind(add_assign(slf, r), LAMBDA a :
    <<"adc", "adc", "adc", "adc", "adc", "adc", "adc", "adc", "assert">>
      \o (IF a.panic THEN <<"panic">>
          ELSE IF a.carry7 = 0 THEN <<"mask", "wrapping_sub">> ELSE <<>>))

\* the steps add_assign executes, in order: the eight carrying limb additions,
\* the assertion, the multiplication of words 0 and 7 of the correction by the
\* mask, the 256-bit subtraction; a failed assertion ends them
add_assign_steps(slf, r) ==
  Bind(add_assign(slf, r), LAMBDA a :
    <<"adc", "adc", "adc", "adc", "adc", "adc", "adc", "adc", "assert">>
      \o (IF a.panic THEN <<"panic">> ELSE <<"mask", "wrapping_sub">>))

\* a negation that multiplies by ONE: normalizes, keeps the sign
negate_by_one(slf, h) == modmul_u256_denormalized(slf, ONE, P, h)

\* FieldElementR0::negate
negate(slf, h) == modmul_u256_denormalized(slf, MINUS_ONE, P, h)

\* Neg::neg
neg(slf, h) == negate(slf, h)

\* a subtraction with its operands exchanged: rhs - self
sub_assign_exchanged(slf, r, h) == Bind(neg(slf, h), LAMBDA n : add_assign(r, n))

\* SubAssign::sub_assign
sub_assign(slf, r, h) == Bind(neg(r, h), LAMBDA n : add_assign(slf, n))

\* a multiplication that ignores its right operand
mul_assign_by_self(slf, r, h) == modmul_u256_denormalized(slf, slf, P, h)

\* MulAssign::mul_assign
mul_assign(slf, r, h) == modmul_u256_denormalized(slf, r, P, h)

\* ConditionallySelectable::conditional_select
conditional_select(a, b, choice) == IF choice = 1 THEN b ELSE a

\* FieldElementR0::square
square(slf, h) == modmul_u256_denormalized(slf, slf, P, h)

\* a square2 without the doubling
square2_undoubled(slf, hs) == modmul_u256_denormalized(slf, slf, P, hs[1])

\* FieldElementR0::square2; hs holds the host's choice for each multiply
square2(slf, hs) ==
  Bind(square(slf, hs[1]), LAMBDA squared :
    modmul_u256_denormalized(TWO, squared, P, hs[2]))

\* the loop over the inclusive range 1..=k: one squaring too many
RECURSIVE pow2k_loop_inclusive(_, _, _, _)
pow2k_loop_inclusive(z, i, k, hs) ==
  IF i > k THEN z
  ELSE Bind(modmul_u256_denormalized(z, z, P, 0), LAMBDA z2 :
         pow2k_loop_inclusive(z2, i + 1, k, hs))

\* the loop of pow2k: squarings number i .. k - 1 of the k (for _ in 1..k)
RECURSIVE pow2k_loop(_, _, _, _)
pow2k_loop(z, i, k, hs) ==
  IF i >= k THEN z
  ELSE Bind(square(z, hs[i + 1]), LAMBDA z2 : pow2k_loop(z2, i + 1, k, hs))

\* FieldElementR0::pow2k, for k > 0
pow2k(slf, k, hs) ==
  Bind(square(slf, hs[1]), LAMBDA z : pow2k_loop(z, 1, k, hs))

\* a decoding that keeps bit 255
from_bytes_keep_top(data, h) ==
  modmul_u256_denormalized(from_le_bytes(data), ONE, P, h)

\* FieldElementR0::from_bytes
from_bytes(data, h) ==
  LET val == from_le_bytes(data)
      cleared == [i \in 1..32 |-> IF i = 32 THEN val[32] % 128 ELSE val[i]]
  IN  modmul_u256_denormalized(cleared, ONE, P, h)

\* an encoding that reduces a non-canonical value instead of aborting
as_bytes_reducing(slf) ==
  [panic |-> FALSE, bytes |-> to_le_bytes(reduce_below(slf, 0, P))]

\* FieldElementR0::as_bytes: [panic, bytes]
as_bytes(slf) ==
  IF ~ct_lt(slf, P) THEN [panic |-> TRUE, bytes |-> <<>>]
  ELSE [panic |-> FALSE, bytes |-> to_le_bytes(slf)]

---------------------------------------------------------------------------
(* constants.rs: the field constants                                       *)

EDWARDS_D ==
  from_be_hex(<<\h5203, \h6CEE, \h2B6F, \hFE73, \h8CC7, \h4079, \h7779, \hE898,
                \h0070, \h0A4D, \h4141, \hD8AB, \h75EB, \h4DCA, \h1359, \h78A3>>)
EDWARDS_D2 ==
  from_be_hex(<<\h2406, \hD9DC, \h56DF, \hFCE7, \h198E, \h80F2, \hEEF3, \hD130,
                \h00E0, \h149A, \h8283, \hB156, \hEBD6, \h9B94, \h26B2, \hF159>>)
ONE_MINUS_EDWARDS_D_SQUARED ==
  from_be_hex(<<\h0290, \h72A8, \hB2B3, \hE0D7, \h9994, \hABDD, \hBE70, \hDFE4,
                \h2C81, \hA138, \hCD5E, \h350F, \hE27C, \h09C1, \h945F, \hC176>>)
EDWARDS_D_MINUS_ONE_SQUARED ==
  from_be_hex(<<\h5968, \hB37A, \hF66C, \h2241, \h4CDC, \hD32F, \h529B, \h4EEB,
                \hD29E, \h4A2C, \hB01E, \h1999, \h31AD, \h5AAA, \h44ED, \h4D20>>)
SQRT_AD_MINUS_ONE ==
  from_be_hex(<<\h3769, \h31BF, \h2B83, \h48AC, \h0F3C, \hFCC9, \h31F5, \hD1FD,
                \hAF9D, \h8E0C, \h1B78, \h54BD, \h7E97, \hF6A0, \h497B, \h2E1B>>)
INVSQRT_A_MINUS_D ==
  from_be_hex(<<\h786C, \h8905, \hCFAF, \hFCA2, \h16C2, \h7B91, \hFE01, \hD840,
                \h9D2F, \h1617, \h5A41, \h72BE, \h99C8, \hFDAA, \h805D, \h40EA>>)
\* a value next to SQRT_M1
SQRT_M1_PLUS_ONE ==
  from_be_hex(<<\h2B83, \h2480, \h4FC1, \hDF0B, \h2B4D, \h0099, \h3DFB, \hD7A7,
                \h2F43, \h1806, \hAD2F, \hE478, \hC4EE, \h1B27, \h4A0E, \hA0B1>>)

SQRT_M1 ==
  from_be_hex(<<\h2B83, \h2480, \h4FC1, \hDF0B, \h2B4D, \h0099, \h3DFB, \hD7A7,
                \h2F43, \h1806, \hAD2F, \hE478, \hC4EE, \h1B27, \h4A0E, \hA0B0>>)
APLUS2_OVER_FOUR ==
  from_be_hex(<<\h0000, \h0000, \h0000, \h0000, \h0000, \h0000, \h0000, \h0000,
                \h0000, \h0000, \h0000, \h0000, \h0000, \h0000, \h0001, \hDB42>>)
MONTGOMERY_A ==
  from_be_hex(<<\h0000, \h0000, \h0000, \h0000, \h0000, \h0000, \h0000, \h0000,
                \h0000, \h0000, \h0000, \h0000, \h0000, \h0000, \h0007, \h6D06>>)
MONTGOMERY_A_NEG ==
  from_be_hex(<<\h7FFF, \hFFFF, \hFFFF, \hFFFF, \hFFFF, \hFFFF, \hFFFF, \hFFFF,
                \hFFFF, \hFFFF, \hFFFF, \hFFFF, \hFFFF, \hFFFF, \hFFF8, \h92E7>>)

\* the base point with its T of the opposite sign
BASEPOINT_WITH_NEGATED_T ==
  [X |-> from_be_hex(<<\h2169, \h36D3, \hCD6E, \h53FE, \hC0A4, \hE231, \hFDD6, \hDC5C,
                      \h692C, \hC760, \h9525, \hA7B2, \hC956, \h2D60, \h8F25, \hD51A>>),
   Y |-> from_be_hex(<<\h6666, \h6666, \h6666, \h6666, \h6666, \h6666, \h6666, \h6666,
                      \h6666, \h6666, \h6666, \h6666, \h6666, \h6666, \h6666, \h6658>>),
   Z |-> ONE,
   T |-> from_be_hex(<<\h1878, \hA0F0, \h2874, \h899A, \h9915, \hB171, \h9B54, \h1C82,
                      \hDF0F, \h607F, \h88AE, \hAD0A, \h9221, \h754C, \h5A48, \h224A>>)]

\* ED25519_BASEPOINT_POINT
ED25519_BASEPOINT_POINT ==
  [X |-> from_be_hex(<<\h2169, \h36D3, \hCD6E, \h53FE, \hC0A4, \hE231, \hFDD6, \hDC5C,
                       \h692C, \hC760, \h9525, \hA7B2, \hC956, \h2D60, \h8F25, \hD51A>>),
   Y |-> from_be_hex(<<\h6666, \h6666, \h6666, \h6666, \h6666, \h6666, \h6666, \h6666,
                       \h6666, \h6666, \h6666, \h6666, \h6666, \h6666, \h6666, \h6658>>),
   Z |-> ONE,
   T |-> from_be_hex(<<\h6787, \h5F0F, \hD78B, \h7665, \h66EA, \h4E8E, \h64AB, \hE37D,
                       \h20F0, \h9F80, \h7751, \h52F5, \h6DDE, \h8AB3, \hA5B7, \hDDA3>>)]

\* the FieldElementR0 constants of field.rs and constants.rs
FieldConstants ==
  {ZERO, ONE, TWO, MINUS_ONE, EDWARDS_D, EDWARDS_D2, ONE_MINUS_EDWARDS_D_SQUARED,
   EDWARDS_D_MINUS_ONE_SQUARED, SQRT_AD_MINUS_ONE, INVSQRT_A_MINUS_D, SQRT_M1,
   APLUS2_OVER_FOUR, MONTGOMERY_A, MONTGOMERY_A_NEG,
   ED25519_BASEPOINT_POINT.X, ED25519_BASEPOINT_POINT.Y, ED25519_BASEPOINT_POINT.T}

---------------------------------------------------------------------------
(* constants.rs: the fixed curve points and the precomputed tables. An     *)
(* EdwardsPoint is the record of its X, Y, Z, T; an AffineNielsPoint the   *)
(* record of its y_plus_x, y_minus_x, xy2d.                                *)

\* EIGHT_TORSION_INNER_DOC_HIDDEN: the eight EdwardsPoints, entry i at i + 1
EIGHT_TORSION_INNER_DOC_HIDDEN ==
  <<
    [X |-> ZERO,
     Y |-> ONE,
     Z |-> ONE,
     T |-> ZERO],
    [X |-> from_be_hex(<<\h1FD5, \hB9A0, \h0639, \h4A28, \hE933, \h9932, \h38DE, \h4ABB,
                        \h5C19, \h3C70, \h13E5, \hE238, \hDEA1, \h4646, \hC545, \hD14A>>),
     Y |-> from_be_hex(<<\h7A03, \hAC92, \h77FD, \hC74E, \hC6CC, \h392C, \hFA53, \h202A,
                        \h0F67, \h100D, \h760B, \h3CBA, \h4FD8, \h4D3D, \h706A, \h17C7>>),
     Z |-> ONE,
     T |-> from_be_hex(<<\h6CE2, \h44C3, \h60A2, \h6BEB, \h3032, \h76D1, \h92F8, \hAF0A,
                        \hBA99, \h3D74, \hCDFA, \h8596, \h2D0D, \h253E, \hDE7E, \h8781>>)],
    [X |-> from_be_hex(<<\h547C, \hDB7F, \hB03E, \h20F4, \hD4B2, \hFF66, \hC204, \h2858,
                        \hD0BC, \hE7F9, \h52D0, \h1B87, \h3B11, \hE4D8, \hB5F1, \h5F3D>>),
     Y |-> ZERO,
     Z |-> ONE,
     T |-> ZERO],
    [X |-> from_be_hex(<<\h1FD5, \hB9A0, \h0639, \h4A28, \hE933, \h9932, \h38DE, \h4ABB,
                        \h5C19, \h3C70, \h13E5, \hE238, \hDEA1, \h4646, \hC545, \hD14A>>),
     Y |-> from_be_hex(<<\h05FC, \h536D, \h8802, \h38B1, \h3933, \hC6D3, \h05AC, \hDFD5,
                        \hF098, \hEFF2, \h89F4, \hC345, \hB027, \hB2C2, \h8F95, \hE826>>),
     Z |-> ONE,
     T |-> from_be_hex(<<\h131D, \hBB3C, \h9F5D, \h9414, \hCFCD, \h892E, \h6D07, \h50F5,
                        \h4566, \hC28B, \h3205, \h7A69, \hD2F2, \hDAC1, \h2181, \h786C>>)],
    [X |-> ZERO,
     Y |-> from_be_hex(<<\h7FFF, \hFFFF, \hFFFF, \hFFFF, \hFFFF, \hFFFF, \hFFFF, \hFFFF,
                        \hFFFF, \hFFFF, \hFFFF, \hFFFF, \hFFFF, \hFFFF, \hFFFF, \hFFEC>>),
     Z |-> ONE,
     T |-> ZERO],
    [X |-> from_be_hex(<<\h602A, \h465F, \hF9C6, \hB5D7, \h16CC, \h66CD, \hC721, \hB544,
                        \hA3E6, \hC38F, \hEC1A, \h1DC7, \h215E, \hB9B9, \h3ABA, \h2EA3>>),
     Y |-> from_be_hex(<<\h05FC, \h536D, \h8802, \h38B1, \h3933, \hC6D3, \h05AC, \hDFD5,
                        \hF098, \hEFF2, \h89F4, \hC345, \hB027, \hB2C2, \h8F95, \hE826>>),
     Z |-> ONE,
     T |-> from_be_hex(<<\h6CE2, \h44C3, \h60A2, \h6BEB, \h3032, \h76D1, \h92F8, \hAF0A,
                        \hBA99, \h3D74, \hCDFA, \h8596, \h2D0D, \h253E, \hDE7E, \h8781>>)],
    [X |-> from_be_hex(<<\h2B83, \h2480, \h4FC1, \hDF0B, \h2B4D, \h0099, \h3DFB, \hD7A7,
                        \h2F43, \h1806, \hAD2F, \hE478, \hC4EE, \h1B27, \h4A0E, \hA0B0>>),
     Y |-> ZERO,
     Z |-> ONE,
     T |-> ZERO],
    [X |-> from_be_hex(<<\h602A, \h465F, \hF9C6, \hB5D7, \h16CC, \h66CD, \hC721, \hB544,
                        \hA3E6, \hC38F, \hEC1A, \h1DC7, \h215E, \hB9B9, \h3ABA, \h2EA3>>),
     Y |-> from_be_hex(<<\h7A03, \hAC92, \h77FD, \hC74E, \hC6CC, \h392C, \hFA53, \h202A,
                        \h0F67, \h100D, \h760B, \h3CBA, \h4FD8, \h4D3D, \h706A, \h17C7>>),
     Z |-> ONE,
     T |-> from_be_hex(<<\h131D, \hBB3C, \h9F5D, \h9414, \hCFCD, \h892E, \h6D07, \h50F5,
                        \h4566, \hC28B, \h3205, \h7A69, \hD2F2, \hDAC1, \h2181, \h786C>>)]>>

\* the table with its entries 2 and 6 exchanged
EIGHT_TORSION_EXCHANGED ==
  [i \in 1..8 |-> EIGHT_TORSION_INNER_DOC_HIDDEN[IF i = 3 THEN 7 ELSE IF i = 7 THEN 3 ELSE i]]

\* EIGHT_TORSION
EIGHT_TORSION == EIGHT_TORSION_INNER_DOC_HIDDEN

\* ED25519_BASEPOINT_TABLE_INNER_DOC_HIDDEN: the EdwardsBasepointTable, a tuple
\* of LookupTables, each a tuple of AffineNielsPoints
ED25519_BASEPOINT_TABLE_INNER_DOC_HIDDEN ==
  <<
    \* LookupTable 0
    <<
      [y_plus_x |-> from_be_hex(<<\h07CF, \h9D3A, \h33D4, \hBA65, \h270B, \h4898, \h643D, \h42C2,
                                  \hCF93, \h2DC6, \hFB8C, \h0E19, \h2FBC, \h93C6, \hF58C, \h3B85>>),
       y_minus_x |-> from_be_hex(<<\h44FD, \h2F92, \h98F8, \h1267, \hA5C1, \h8434, \h688F, \h8A09,
                                   \hFD39, \h9F05, \hD140, \hBEB3, \h9D10, \h3905, \hD740, \h913E>>),
       xy2d |-> from_be_hex(<<\h6F11, \h7B68, \h9F0C, \h65A8, \h5A1B, \h7DCB, \hDD43, \h598C,
                              \h26D9, \hE823, \hCCAA, \hC49E, \hABC9, \h1205, \h877A, \hAA68>>)],
      [y_plus_x |-> from_be_hex(<<\h590C, \h063F, \hA87D, \h2E2E, \h5AA6, \h9A65, \hE1D6, \h0702,
                                  \h9F46, \h9D96, \h7A0F, \hF5B5, \h9224, \hE7FC, \h933C, \h71D7>>),
       y_minus_x |-> from_be_hex(<<\h6BB5, \h95A6, \h69C9, \h2555, \hE09E, \h236B, \hB16E, \h37AA,
                                   \h8F2B, \h810C, \h4E60, \hACF6, \h8A99, \hA560, \h42B4, \hD5A8>>),
       xy2d |-> from_be_hex(<<\h701A, \hF5B1, \h3EA5, \h0B73, \h500F, \hA084, \h0B3D, \h6A31,
                              \h36C1, \h6BDD, \h5D9A, \hCF78, \h43FA, \hA8B3, \hA59B, \h7A5F>>)],
      [y_plus_x |-> from_be_hex(<<\h7A16, \h4E1B, \h9A80, \hF8F4, \hC11B, \h5002, \h9F01, \h6732,
                                  \h025A, \h8430, \hE886, \h4B8A, \hAF25, \hB0A8, \h4CEE, \h9730>>),
       y_minus_x |-> from_be_hex(<<\h2AB9, \h1587, \h555B, \hDA62, \h8131, \hF31A, \h214B, \hD6BD,
                                   \h3BD3, \h53FD, \hE5C1, \hBA7D, \h5661, \h1FE8, \hA4FC, \hD265>>),
       xy2d |-> from_be_hex(<<\h5A28, \h26AF, \h12B9, \hB4C6, \hD170, \hE545, \h8CF2, \hDB4C,
                              \h5894, \h2322, \h1C35, \hDA62, \h14AE, \h933F, \h0DD0, \hD889>>)],
      [y_plus_x |-> from_be_hex(<<\h680E, \h9103, \h21E5, \h8727, \hCA34, \h8D3D, \hFB0A, \h9265,
                                  \h6765, \hC6F4, \h7DFD, \h2538, \h2873, \h51B9, \h8EFC, \h099F>>),
       y_minus_x |-> from_be_hex(<<\h2793, \h3F4C, \h7445, \hA49A, \hC3E8, \hE3CD, \h06A0, \h5073,
                                   \h327E, \h8971, \h5660, \hFAA9, \h95FE, \h050A, \h0568, \h18BF>>),
       xy2d |-> from_be_hex(<<\h7F9D, \h0CBF, \h6355, \h3E2B, \h5DDB, \hDCF9, \h102B, \h4494,
                              \h6E9E, \h3945, \h7B5C, \hC172, \h5A13, \hFBE9, \hC476, \hFF09>>)],
      [y_plus_x |-> from_be_hex(<<\h2945, \hCCF1, \h46E2, \h06EB, \hDD1B, \hEB0C, \h5ABF, \hEC44,
                                  \h8D50, \h48C3, \hC75E, \hED02, \hA212, \hBC44, \h08A5, \hBB33>>),
       y_minus_x |-> from_be_hex(<<\h154A, \h7E73, \hEB1B, \h55F3, \hE33C, \hF11C, \hB864, \hA087,
                                   \hD500, \h14D1, \h4B27, \h29B7, \h7F91, \h82C3, \hA447, \hD6BA>>),
       xy2d |-> from_be_hex(<<\h43AA, \hBE69, \h6B3B, \hB69A, \hB41B, \h670B, \h1BBD, \hA72D,
                              \h270E, \h0807, \hD0BD, \hD1FC, \hBCBB, \hDBF1, \h812A, \h8285>>)],
      [y_plus_x |-> from_be_hex(<<\h51E5, \h7BB6, \hA2CC, \h38BD, \h8065, \hB668, \hDA59, \hA736,
                                  \h9B27, \h1589, \h00C8, \hAF88, \h3A0C, \hEEEB, \h7715, \h7131>>),
       y_minus_x |-> from_be_hex(<<\h38B6, \h4C41, \hAE41, \h7884, \hBB08, \h5CE7, \h2045, \h53B9,
                                   \h575B, \hE284, \h27D2, \h2739, \h4998, \h06B6, \h7B7D, \h8CA4>>),
       xy2d |-> from_be_hex(<<\h10B8, \hE91A, \h9F0D, \h61E3, \h53E4, \hA24B, \h083B, \hC144,
                              \hBE70, \hE003, \h41A1, \hBB01, \h85AC, \h3267, \h02EA, \h4B71>>)],
      [y_plus_x |-> from_be_hex(<<\h461B, \hEA69, \h283C, \h927E, \h71B2, \h5282, \h2854, \h2E49,
                                  \h7470, \h353A, \hB39D, \hC0D2, \h6B1A, \h5CD0, \h944E, \hA3BF>>),
       y_minus_x |-> from_be_hex(<<\h1D6E, \hDD5D, \h2E53, \h17E0, \h9DEA, \h764F, \h9219, \h2C3A,
                                   \h6CA0, \h2153, \h3BBA, \h23A7, \hBA6F, \h2C9A, \hAA32, \h21B1>>),
       xy2d |-> from_be_hex(<<\h7A9F, \hBB1C, \h6A0F, \h90A7, \h529C, \h41BA, \h5877, \hADF3,
                              \hB303, \h5F47, \h053E, \hA49A, \hF183, \h6DC8, \h01B8, \hB3A2>>)],
      [y_plus_x |-> from_be_hex(<<\h0915, \hE760, \h61BC, \hE52F, \hB133, \h9C66, \h5ED9, \hC323,
                                  \h6CB3, \h0377, \hE288, \h702C, \h59B7, \h5966, \h04DD, \h3E8F>>),
       y_minus_x |-> from_be_hex(<<\h3A90, \h24A1, \h320E, \h01C3, \h2C27, \h41AC, \h6E3C, \h23FB,
                                   \h963D, \h7680, \hE1B5, \h58F9, \hE2A7, \h5DED, \hF392, \h34D9>>),
       xy2d |-> from_be_hex(<<\h2690, \h7C5C, \h2ECC, \h4E95, \h6364, \h1219, \h0EB6, \h2A32,
                              \hB8A3, \h7178, \h8BCC, \hA7D7, \hE7C1, \hF5D9, \hC9A2, \h911A>>)]>>,
    \* LookupTable 1
    <<
      [y_plus_x |-> from_be_hex(<<\h6DD3, \h7D49, \hA00E, \hEF39, \h52DF, \hB76B, \hA863, \h7A58,
                                  \h51D0, \hB696, \h7689, \h3115, \h2ECC, \hDD0E, \h632F, \h9C1D>>),
       y_minus_x |-> from_be_hex(<<\h30D7, \h6D6F, \h03D3, \h15B9, \h850C, \h1FE9, \h5B42, \hD1C4,
                                   \hA865, \hC49F, \h0BC6, \h823A, \hED5B, \h6354, \h49AA, \h515E>>),
       xy2d |-> from_be_hex(<<\h10C6, \h9711, \h2E86, \h4BB0, \hB473, \h9EA4, \h694D, \h3F26,
                              \hFB53, \hD680, \h928D, \h7F69, \h6C44, \h4417, \h2106, \hE4C7>>)],
      [y_plus_x |-> from_be_hex(<<\h03BF, \h9BAF, \h5508, \h06EF, \h7464, \hD3A6, \h3B11, \hEDDC,
                                  \h6A3D, \h4AE3, \h7A20, \h4247, \h0CA6, \h2AA0, \h8358, \hC805>>),
       y_minus_x |-> from_be_hex(<<\h25E6, \h1CAB, \hED66, \hFE09, \h0E00, \hDFC8, \h4630, \h4590,
                                   \h265D, \h4FAD, \h19AD, \h7EA2, \h6493, \hC427, \h7DBE, \h5FDE>>),
       xy2d |-> from_be_hex(<<\h566D, \h7863, \h4586, \hE22C, \hA0B6, \h3DED, \hCC12, \h68F5,
                              \h6F58, \h73EC, \hB459, \h747E, \h3F13, \hE128, \hCC58, \h6604>>)],
      [y_plus_x |-> from_be_hex(<<\h14FB, \hA5F3, \h4793, \hB22A, \h680A, \hE240, \h731A, \hEE58,
                                  \h6C64, \h112A, \hF316, \h67C3, \hA105, \h4285, \hC65A, \h2FD0>>),
       y_minus_x |-> from_be_hex(<<\h3397, \h5BCA, \h5ECC, \h35D9, \h1CB5, \hEC0F, \h7F7F, \hD2DB,
                                   \hBC8E, \h56D5, \hA89B, \hC451, \h1637, \hA49F, \h9CC1, \h0834>>),
       xy2d |-> from_be_hex(<<\h1482, \h9CEA, \h83FC, \h526C, \h2FC3, \hF2B6, \h7B61, \h131E,
                              \h593E, \h5E84, \hC9C8, \h0057, \h3CD7, \h4616, \h6985, \hF7D4>>)],
      [y_plus_x |-> from_be_hex(<<\h05FC, \h3BC4, \h535D, \h7B7E, \hBF65, \h56CE, \hCE1D, \h4F80,
                                  \hE656, \hDDB9, \h40A4, \h77E3, \h21E7, \h0B2F, \h4E71, \hECB8>>),
       y_minus_x |-> from_be_hex(<<\h2FD9, \hC71E, \h5F75, \h8173, \h9E0C, \h5D61, \h3C85, \hE88B,
                                   \h6C74, \h4E30, \hAA4E, \hB5A7, \hFF43, \h7B84, \h97DD, \h95C2>>),
       xy2d |-> from_be_hex(<<\h3737, \h6747, \h5C65, \h1F04, \h33A4, \hBC83, \hA9BE, \h8195,
                              \h3495, \h638C, \hED3B, \h30CF, \h24B8, \hB3AE, \h52AF, \hDEDD>>)],
      [y_plus_x |-> from_be_hex(<<\h6BF5, \h9057, \h3090, \h7C8C, \h9E38, \h140C, \h8910, \hBC60,
                                  \hEF12, \h1440, \h16C1, \h5535, \h6340, \h95CB, \h1424, \h6590>>),
       y_minus_x |-> from_be_hex(<<\h1FBE, \hA56C, \h3B18, \hF999, \h4363, \hF052, \h15F0, \h3BAE,
                                   \hB307, \h166F, \h96F4, \hD027, \h2FBA, \h99FD, \h40D1, \hADD9>>),
       xy2d |-> from_be_hex(<<\h0252, \h1CF6, \h7A63, \h5A56, \h6F52, \hD7B8, \h9AA2, \h9A50,
                              \h0640, \h9FF7, \hBAC3, \hA77E, \h0FA7, \h78F1, \hE141, \h5B8A>>)],
      [y_plus_x |-> from_be_hex(<<\h0017, \h53D9, \hF7CD, \h6CC4, \h4AF8, \h224D, \h00AC, \h824A,
                                  \hE8F8, \h94B1, \h9607, \h9ACE, \hB114, \h6720, \h772F, \h5EE4>>),
       y_minus_x |-> from_be_hex(<<\h3FA0, \h0A7E, \h7138, \h2CED, \hD461, \h8688, \hBFE1, \h07CE,
                                   \h8F98, \hE75C, \h0FDF, \h5A66, \h513F, \hEE0B, \h0A9D, \h5294>>),
       xy2d |-> from_be_hex(<<\h12B5, \hFE2F, \hA048, \hEDB6, \hAAD7, \hD1F9, \hA091, \hF285,
                              \h1DDE, \h87DA, \hB497, \h3858, \h3C69, \h232D, \h963D, \hDB34>>)],
      [y_plus_x |-> from_be_hex(<<\h6F7E, \h93C2, \h0796, \hC7B8, \h8C40, \h9DC0, \h751C, \h8BC3,
                                  \h4B66, \hD323, \h504B, \h8913, \hDF2B, \h7C26, \hAD6F, \h1E92>>),
       y_minus_x |-> from_be_hex(<<\h749B, \h76F9, \h6FB1, \h206F, \hD204, \h7261, \hFF28, \hC561,
                                   \h73B9, \h826B, \hADF3, \h5BED, \h71F0, \hFBC4, \h96FC, \hE34D>>),
       xy2d |-> from_be_hex(<<\h0FCE, \hC10F, \h01E0, \h2151, \h61A8, \h08B5, \hEEFF, \h6B66,
                              \hC123, \h51F1, \hBEE4, \h9C99, \h1F5A, \hF604, \hAEA6, \hAE05>>)],
      [y_plus_x |-> from_be_hex(<<\h4137, \h7916, \h6FEA, \hB90A, \h6CC8, \h067E, \h820C, \h214D,
                                  \h2B02, \h0E74, \h93D8, \hDE0A, \h3DF2, \hD29D, \hC424, \h4E45>>),
       y_minus_x |-> from_be_hex(<<\h4901, \hAA71, \h83C5, \h11F3, \h0244, \h1C5A, \h887F, \hD0D2,
                                   \h21FC, \hAEA2, \h31AD, \h777E, \h644D, \h58A6, \h49FE, \h1E44>>),
       xy2d |-> from_be_hex(<<\h41BB, \h887B, \h726D, \h1213, \hF760, \hB0F9, \h1E06, \hD939,
                              \hCE0F, \h7A7C, \h2462, \h99B4, \h08B1, \hB754, \h8C1A, \hF8F0>>)]>>,
    \* LookupTable 2
    <<
      [y_plus_x |-> from_be_hex(<<\h0A87, \h1E07, \h0C6A, \h9E1D, \hDAE2, \hC90C, \h354A, \hFAE7,
                                  \h6488, \h9D3D, \h0A85, \hB4C8, \h7E23, \h4C59, \h7C66, \h91AE>>),
       y_minus_x |-> from_be_hex(<<\h4EB7, \h28C1, \h2FCD, \hBDF7, \h7C3A, \h8A18, \hA13B, \h603E,
                                   \h1D48, \hDAD4, \h15B5, \h2B25, \h40E8, \h7D44, \h7443, \h46BE>>),
       xy2d |-> from_be_hex(<<\h3EE7, \h300F, \h2685, \hD464, \h0D61, \hADE2, \h19D5, \h9E3C,
                              \h736B, \hAE3A, \h5BDD, \h4260, \h3301, \hB599, \h4BBC, \h8989>>)],
      [y_plus_x |-> from_be_hex(<<\h7D47, \hC6A2, \hCFB8, \h9030, \hA106, \h5E1D, \hE305, \h2B74,
                                  \hE5C6, \hFA59, \h639C, \h46D7, \h43FA, \h7947, \h841E, \h7518>>),
       y_minus_x |-> from_be_hex(<<\h1381, \h5762, \h9791, \h25C2, \h3C99, \h975D, \h92E1, \h87CA,
                                   \h8016, \h115C, \h610B, \h1EAC, \hF5D2, \h55E4, \h9E7D, \hD6B7>>),
       xy2d |-> from_be_hex(<<\h148C, \hF58D, \h34C9, \hEC80, \h71EC, \h6210, \h26BB, \h8157,
                              \h9D3E, \h749A, \h9154, \h6F3C, \h3FDA, \hD014, \h8EF0, \hD6E0>>)],
      [y_plus_x |-> from_be_hex(<<\h278F, \hEBAD, \h4EAE, \hA1B9, \h9FD1, \h0B6D, \h6960, \hA88D,
                                  \h56C3, \h45BB, \h88F3, \h487F, \hE257, \h2F7D, \h9AE4, \h756D>>),
       y_minus_x |-> from_be_hex(<<\h3FF2, \hFA1E, \hBD5D, \hBBD4, \h5CA1, \hBC2A, \h8961, \h1854,
                                   \h4699, \h84BE, \hF684, \h0AA9, \h46A4, \h92F6, \h7934, \hF027>>),
       xy2d |-> from_be_hex(<<\h4104, \hDD02, \hFE9C, \h677B, \h3911, \h5291, \h219D, \h3C52,
                              \h8C21, \h949C, \h2029, \h0C98, \hB1AA, \h681F, \h8C93, \h3966>>)],
      [y_plus_x |-> from_be_hex(<<\h0165, \hB5A4, \h8EFC, \hA481, \h6524, \hC12A, \h409E, \h2AF5,
                                  \h21A8, \hB6C9, \h0CE4, \h4F35, \h8121, \h4E06, \hDB09, \h6AB8>>),
       y_minus_x |-> from_be_hex(<<\h2C86, \h3B00, \hAFAF, \h53D5, \h94CB, \h6101, \hFA52, \hB666,
                                   \hA1FA, \h0C33, \h98A3, \h3AB5, \h72B2, \hBF5E, \h1124, \h422A>>),
       xy2d |-> from_be_hex(<<\h591B, \h67D9, \hBFFE, \hC8B8, \h695E, \h2906, \h58AA, \h2B8F,
                              \h12EF, \hF984, \hCD2F, \h7CC0, \hF190, \hA474, \hA084, \h6A76>>)],
      [y_plus_x |-> from_be_hex(<<\h489B, \h4F86, \h7030, \h128B, \h6108, \h1136, \hC29F, \h05ED,
                                  \hE465, \hE5FA, \hA18C, \h641E, \h99B9, \hB371, \h9F18, \hB55D>>),
       y_minus_x |-> from_be_hex(<<\h3DE0, \h2EC7, \hCA8F, \h7BCB, \h7270, \h33C0, \h9EF0, \h1C88,
                                   \h5979, \h515E, \hABF3, \hEC8A, \h312F, \h0D1C, \h80B4, \h9BFA>>),
       xy2d |-> from_be_hex(<<\h49F5, \hFBBA, \h496C, \hBEBF, \h3D7E, \hABE7, \h190B, \hAA24,
                              \hE162, \h53B4, \h6116, \hA861, \hD232, \h102D, \h3AEB, \h92EF>>)],
      [y_plus_x |-> from_be_hex(<<\h06A1, \hA6C2, \h8867, \h515B, \h91A3, \h52F6, \h5157, \h63EB,
                                  \h8A4D, \h86AC, \hC588, \h4741, \h155D, \h628C, \h1E9C, \h572E>>),
       y_minus_x |-> from_be_hex(<<\h5604, \hA86D, \hCBFA, \h6E74, \h92C2, \h94C1, \h307C, \h0D1C,
                                   \hDC40, \hDD70, \hBC64, \h73EB, \h3094, \h9A10, \h8A5B, \hCFD4>>),
       xy2d |-> from_be_hex(<<\h2098, \h9E89, \hFE27, \h42C6, \h9F03, \h1A60, \h18AC, \hF6D1,
                              \h7254, \h1140, \hE041, \h8B51, \h7288, \hD1D4, \h7C17, \h64B6>>)],
      [y_plus_x |-> from_be_hex(<<\h730B, \h9950, \hF705, \h95D3, \h640A, \h4C16, \h61CB, \hF45A,
                                  \h5621, \hDC07, \h7ACB, \h2BDF, \h1674, \h278B, \h85EA, \hEC2E>>),
       y_minus_x |-> from_be_hex(<<\h0403, \hED1D, \h0CA6, \h7E29, \hA279, \hD864, \hD207, \hE3A0,
                                   \h3285, \h7C2C, \hA54F, \hD892, \h4997, \h77FD, \h3A2D, \hCC7F>>),
       xy2d |-> from_be_hex(<<\h5BD7, \h4543, \h0830, \h3DCC, \hF7CB, \h46FA, \h16C0, \h35CE,
                              \hC5E6, \hC8CF, \h9824, \h6F8D, \hC94B, \h2D35, \h874E, \hC552>>)],
      [y_plus_x |-> from_be_hex(<<\h5BB7, \hDB12, \h3067, \hF82C, \h9D1E, \h3DA8, \hADA3, \hD762,
                                  \hC64C, \h89A2, \hBDCD, \hDDC9, \h85C4, \h9321, \h15E7, \h792A>>),
       y_minus_x |-> from_be_hex(<<\h133A, \h7800, \h7380, \hAD83, \h66B8, \hB66E, \h4FC0, \h7236,
                                   \h7F6B, \h5465, \h6335, \hC181, \h7F9A, \hD195, \h28B2, \h4CC2>>),
       xy2d |-> from_be_hex(<<\h740D, \hCA6D, \h58F0, \hE0D2, \h1823, \h6077, \h9BD5, \h4770,
                              \h04EC, \h21D6, \h2119, \h52EE, \h0961, \hF467, \hC6CA, \h62BE>>)]>>,
    \* LookupTable 3
    <<
      [y_plus_x |-> from_be_hex(<<\h2C03, \hF525, \h6C2B, \h03D9, \hDBAA, \h99EA, \hE3D9, \h079F,
                                  \hB7B5, \h270E, \hC281, \h439D, \h231A, \h8C57, \h0478, \h433C>>),
       y_minus_x |-> from_be_hex(<<\h161D, \h25FA, \h963E, \hA38D, \h0571, \h0B2A, \hB954, \h59C4,
                                   \hC3FF, \hFAF3, \h06EC, \h08B7, \hDF48, \hEE07, \h52CF, \hCE4E>>),
       xy2d |-> from_be_hex(<<\h6994, \h68BD, \hBD96, \hBBAF, \h3190, \h3D77, \h257E, \hF7F9,
                              \h307B, \h0130, \hCF0C, \h5879, \h790F, \h1875, \h7B53, \hA47D>>)],
      [y_plus_x |-> from_be_hex(<<\h293E, \h1C4E, \h6C4A, \h2E3A, \h9B48, \h2466, \h34FD, \hEA2F,
                                  \h4850, \h64C2, \h2FC0, \hD2CC, \hD8DD, \h3DE6, \h6AA9, \h1948>>),
       y_minus_x |-> from_be_hex(<<\h5252, \h19A4, \h7390, \h5785, \hD31F, \hFDDA, \h4A47, \hB37F,
                                   \h7CEF, \h0114, \hA47F, \hD6F7, \hBD1F, \h2F46, \hF4DA, \hFECF>>),
       xy2d |-> from_be_hex(<<\h5B60, \h5C44, \h7F03, \h2823, \hB045, \h89AF, \h461C, \h3111,
                              \h7037, \h78B5, \hDCA1, \h5DA0, \h376E, \h134B, \h9251, \h12E1>>)],
      [y_plus_x |-> from_be_hex(<<\h2F12, \hFEF4, \hCC5A, \hBDD5, \h5542, \hEF16, \h1E1D, \hE61A,
                                  \h866A, \h579E, \h75E3, \h4962, \h3BE9, \hFEC6, \hF0E7, \hF04C>>),
       y_minus_x |-> from_be_hex(<<\h24A7, \h6DCE, \hA8AE, \hB3EE, \h0001, \h2565, \h02E2, \hEF77,
                                   \hE7F0, \h100C, \h923B, \h8FCC, \hB965, \h8059, \h20C4, \h7C89>>),
       xy2d |-> from_be_hex(<<\h5E60, \h7B25, \h18A4, \h3790, \hC6CF, \h1441, \h78CF, \hF668,
                              \h10D0, \h6E7F, \h40C9, \hA407, \h0A45, \h22B2, \hDFC0, \hC740>>)],
      [y_plus_x |-> from_be_hex(<<\h201F, \h3313, \h9E45, \h7068, \hD245, \h2680, \h2E0F, \h26DB,
                                  \hE3C4, \h2D40, \hAED3, \hE400, \hA02C, \h431C, \hA596, \hCF14>>),
       y_minus_x |-> from_be_hex(<<\h5067, \hACAB, \h6CCD, \hD5F7, \hE1B3, \hFF4F, \h66E6, \h1D6E,
                                   \h35CF, \hA74F, \hC362, \h58A2, \h58B3, \h1D8F, \h6CDF, \h1818>>),
       xy2d |-> from_be_hex(<<\h397C, \hBA88, \h6246, \h0375, \hD522, \h0EB0, \h2E25, \hA4A8,
                              \h18B1, \h4964, \h017C, \h0006, \hFD52, \h7F6B, \h0803, \h9D51>>)],
      [y_plus_x |-> from_be_hex(<<\h771B, \h4022, \hC1E1, \hC252, \hFFA9, \hC0F8, \h85A8, \hFDD5,
                                  \hA661, \h9420, \hDDE1, \h2AF1, \h7815, \hC3FB, \hC813, \h79E7>>),
       y_minus_x |-> from_be_hex(<<\h2339, \hD320, \h766E, \h6C3A, \h222F, \hD491, \h721D, \h5E26,
                                   \hE23A, \hA18D, \hE9A9, \h7976, \h30C1, \h3093, \hF059, \h59B2>>),
       xy2d |-> from_be_hex(<<\h331A, \h1892, \h1997, \h1A76, \hD06B, \hC31B, \h1EA2, \h83B3,
                              \hF5AC, \h9B71, \hF9D4, \hCF08, \hD87D, \hD986, \h513A, \h2FA7>>)],
      [y_plus_x |-> from_be_hex(<<\h1AC9, \h619F, \hF649, \hA67B, \h84ED, \hC1C1, \h1180, \hF7C4,
                                  \h5BCB, \hE288, \h6807, \h4A9E, \h2651, \h2F3A, \h9D75, \h72AF>>),
       y_minus_x |-> from_be_hex(<<\h3116, \h7C6B, \h83BD, \hFE21, \hE3D4, \hE81B, \h9041, \hD91C,
                                   \h9C36, \hC7DE, \h61C7, \h75CF, \hF516, \h6F45, \hFB4F, \h80C6>>),
       xy2d |-> from_be_hex(<<\h6124, \h3634, \h1F08, \hB111, \hFC9D, \h7184, \h4A62, \h50C8,
                              \h5068, \h343B, \hEE9C, \hE987, \hF22B, \h3842, \h524B, \h1068>>)],
      [y_plus_x |-> from_be_hex(<<\h1522, \hAA31, \h78D9, \h0445, \h7F8B, \hF1B8, \hA3A0, \h6BA4,
                                  \h9DDF, \hB700, \h9BD3, \hFD35, \h8B63, \h49E3, \h1A2D, \h2638>>),
       y_minus_x |-> from_be_hex(<<\h46EB, \hE230, \h9E5E, \hFF40, \h793D, \h2C67, \hD00F, \h9BBC,
                                   \h09FE, \hA5F1, \h6C07, \hDC20, \hD99D, \h41DB, \h874E, \h898D>>),
       xy2d |-> from_be_hex(<<\h45FE, \h70F5, \h0524, \h306C, \hE8C8, \h3391, \hB646, \hF227,
                              \hDAFE, \h409A, \hB72D, \h6D10, \h2C38, \h2F53, \h6961, \h4938>>)],
      [y_plus_x |-> from_be_hex(<<\h1661, \h9F6D, \hB57A, \h2245, \h6FBB, \h45D2, \hF5C9, \hD4B8,
                                  \h05F0, \h07C8, \h3F63, \h0CA2, \h62F2, \h4920, \hC895, \h1491>>),
       y_minus_x |-> from_be_hex(<<\h428D, \h1623, \hA0E3, \h92D4, \h07FB, \h51CF, \h3D0B, \h8FD4,
                                   \h5B68, \hD076, \hEF0E, \h2F20, \hDA48, \h75A6, \h960C, \h0B8C>>),
       xy2d |-> from_be_hex(<<\h1D81, \h592D, \h60BD, \h38C6, \hDEB8, \hDE46, \h43D1, \hBC7D,
                              \hA822, \h19C3, \h76A5, \hCAAC, \h084F, \h4A44, \h01A3, \h08FD>>)]>>,
    \* LookupTable 4
    <<
      [y_plus_x |-> from_be_hex(<<\h3A5F, \h6D51, \hB0AF, \h8E7C, \h3A70, \hE77C, \h1D33, \h0F9B,
                                  \h6FF0, \h678B, \hD168, \hBAB2, \h8765, \hB69F, \h7B85, \hC5E8>>),
       y_minus_x |-> from_be_hex(<<\h2023, \h4A77, \h89EC, \hDCF0, \h7F19, \h3F2D, \h4CCE, \h0F7D,
                                   \h17E0, \h2F6A, \hEBAB, \hDC57, \h6136, \h8756, \hA60D, \hAC5F>>),
       xy2d |-> from_be_hex(<<\h7CD6, \h8235, \h3CFF, \hE366, \hF62A, \h4A20, \hB3E4, \h1170,
                              \h071C, \h34F9, \hD51E, \hD160, \h76D2, \h0DB6, \h7178, \hB252>>)],
      [y_plus_x |-> from_be_hex(<<\h3EF0, \h253B, \h2B2C, \hD8FF, \h5759, \h389D, \h3360, \h25D9,
                                  \h42D9, \h2D18, \h3CD7, \hE3D3, \hA665, \hCD60, \h68AC, \hF4F3>>),
       y_minus_x |-> from_be_hex(<<\h2838, \hC886, \h3BDC, \h0943, \hD992, \h1012, \hE96E, \h6000,
                                   \h2A84, \h6A32, \hBA40, \h3B6E, \h0BE1, \hA45B, \hD887, \hFAB6>>),
       xy2d |-> from_be_hex(<<\h21DC, \hB8A6, \h06A8, \h2812, \h82CF, \hAE8A, \hF4AB, \h419D,
                              \hFA49, \h6B41, \h15C5, \h77AB, \hD16B, \hB0CF, \h4A46, \h5030>>)],
      [y_plus_x |-> from_be_hex(<<\h5D84, \h0DBF, \h6C6F, \h678B, \hB2CC, \h0237, \h43F3, \hD97F,
                                  \h8203, \h607E, \h629E, \h1889, \h9A8D, \h00FA, \hBE77, \h31BA>>),
       y_minus_x |-> from_be_hex(<<\h0BC3, \hD081, \h94A3, \h1DAB, \h125B, \h4D4C, \h12EE, \h2F9C,
                                   \h2540, \h096E, \hD42A, \hA3CB, \h5C60, \h0446, \h8C9D, \h9FC8>>),
       xy2d |-> from_be_hex(<<\h3A42, \h7623, \h2AC1, \h96DD, \h57BB, \hBA99, \h7DAE, \h20AB,
                              \h6EB0, \h2DA6, \hB9E1, \h65C7, \h706E, \h380D, \h309F, \hE18B>>)],
      [y_plus_x |-> from_be_hex(<<\h0770, \hC9E8, \h24E1, \hA9F9, \h80AC, \hFFC0, \h75AA, \h15FE,
                                  \h5FCF, \hC41F, \hC628, \h2DBD, \h3BF8, \hC172, \hDB44, \h7ECB>>),
       y_minus_x |-> from_be_hex(<<\h1FF1, \h77CE, \hA16D, \hEBD1, \hBE9F, \h0021, \h9C58, \hE45D,
                                   \h898A, \h19E3, \hDFB9, \hE545, \h4B42, \h432C, \h8A70, \h84FA>>),
       xy2d |-> from_be_hex(<<\h39F2, \h64FD, \h4150, \h0B1E, \hE730, \h0919, \h303E, \h3E89,
                              \h8609, \h84E9, \h1B3A, \h7924, \hCF61, \hD99A, \h45B5, \hB5FD>>)],
      [y_plus_x |-> from_be_hex(<<\h65C6, \h2127, \h2C35, \hF14E, \hC3C9, \h0894, \h2CA6, \hF1FF,
                                  \hA46D, \hFCE1, \hDFE0, \h1929, \hD19B, \h4AAB, \hFE09, \h7BE1>>),
       y_minus_x |-> from_be_hex(<<\h1712, \hD734, \h6888, \h9840, \hA0E9, \h1B8E, \h9359, \h7BA9,
                                   \hBD94, \h376A, \h2B9C, \h139C, \hA7AD, \h3417, \hDBE7, \hE29C>>),
       xy2d |-> from_be_hex(<<\h22F9, \h800A, \hB19C, \hE272, \h0419, \hA93D, \h2E1C, \hFE83,
                              \h4D10, \h3356, \hA125, \hC0BB, \hE72B, \h89F8, \hCE31, \h93DD>>)],
      [y_plus_x |-> from_be_hex(<<\h4171, \hA4D3, \h8598, \hCAB4, \h640F, \h64B9, \h87BD, \hF37B,
                                  \hB912, \hCEBE, \h34A5, \h4941, \h4202, \h9FDD, \h9A6E, \hFDAC>>),
       y_minus_x |-> from_be_hex(<<\h13F4, \h16CD, \h6476, \h26E5, \h553D, \h48B0, \h5F24, \h248F,
                                   \hE3E9, \hC022, \hA550, \h4715, \h605A, \h368A, \h3E9E, \hF8CB>>),
       xy2d |-> from_be_hex(<<\h5082, \h14FA, \h574B, \hD1AB, \hFBD2, \h91DD, \hADDA, \h5392,
                              \h2300, \h6F6F, \hB000, \hB807, \hFA27, \h58AA, \h99C9, \h4C8C>>)],
      [y_plus_x |-> from_be_hex(<<\h3A77, \h58A4, \hC86C, \hB447, \h27C5, \h7675, \h6C68, \h3A5A,
                                  \hB210, \h2888, \hBCF3, \hC965, \h461A, \h15BB, \h53D0, \h03D6>>),
       y_minus_x |-> from_be_hex(<<\h22F9, \h60EC, \h6FAB, \hA74B, \hCBDE, \h2646, \h2C14, \hAF94,
                                   \hA65A, \h6739, \h511D, \h77C4, \hC202, \h6915, \h3ED6, \hFE4B>>),
       xy2d |-> from_be_hex(<<\h5D9F, \hD15F, \h8DE7, \hF494, \h1224, \h8C90, \hF311, \h5E65,
                              \h1DAE, \h21DF, \h1DFD, \h54A6, \h5481, \h11F6, \h93AE, \h5076>>)],
      [y_plus_x |-> from_be_hex(<<\h3BC1, \h87FA, \h47EB, \h98D8, \hE164, \hBA77, \h2E9C, \h16D4,
                                  \h8E3A, \h9028, \h432E, \h9615, \h3F24, \h4D2A, \hEED7, \h521E>>),
       y_minus_x |-> from_be_hex(<<\h332F, \h3591, \h4F8F, \hBED3, \hA9E1, \h8FC5, \hCCAE, \hE24B,
                                   \h6A37, \h9AEF, \hD7C7, \hB533, \h0314, \h08D3, \h6D63, \h727F>>),
       xy2d |-> from_be_hex(<<\h450D, \h81CE, \h906F, \hBA03, \hD778, \h32B5, \h3A66, \h0188,
                              \h998A, \hB7CB, \h6C46, \hD125, \h6D47, \h0115, \hEA86, \hC20C>>)]>>,
    \* LookupTable 5
    <<
      [y_plus_x |-> from_be_hex(<<\h4CBA, \hD279, \h663A, \hB108, \h97BD, \hC55B, \hE7F4, \hED29,
                                  \hF86D, \h18F5, \hEE1C, \h63ED, \hD074, \hD896, \h1CAE, \h743F>>),
       y_minus_x |-> from_be_hex(<<\h2DE2, \h5D4B, \hA634, \h5BE1, \h6F56, \hD155, \hE88F, \h5CB2,
                                   \hAA4F, \h21D7, \h413C, \h8E83, \h6E7B, \hB6A1, \hA620, \h5275>>),
       xy2d |-> from_be_hex(<<\h7D7F, \hBCEF, \hE200, \h7233, \hB1A3, \h974B, \h5F3A, \h6419,
                              \hC525, \hC20A, \hFB28, \h8AF8, \h80D1, \h9024, \hA0D7, \h1FCD>>)],
      [y_plus_x |-> from_be_hex(<<\h4F9C, \hD196, \hDCD8, \hD4D7, \h80C6, \h1D36, \h421C, \h3058,
                                  \hC781, \hA29A, \h2A91, \h05AB, \hCD7C, \h5DC5, \hF3C2, \h9094>>),
       y_minus_x |-> from_be_hex(<<\h5975, \h435E, \h87B7, \h5A8D, \hF68A, \h2FBC, \h1B03, \h762C,
                                   \h866C, \h68C4, \hD573, \h9F16, \hFAEF, \h1E6A, \h266B, \h2801>>),
       xy2d |-> from_be_hex(<<\h7CCD, \hD084, \h387A, \h0307, \hBA02, \h9CAD, \h5C1C, \h0C17,
                              \hD0D0, \h5824, \h1AD1, \h7A63, \h1992, \h97D8, \h6A7B, \h3768>>)],
      [y_plus_x |-> from_be_hex(<<\h3593, \hCA84, \h8190, \hCA44, \hA88D, \hEC86, \h620B, \hDA18,
                                  \hCDAE, \h007A, \h1AB3, \h2A99, \h9B0C, \h8418, \h6760, \hCC93>>),
       y_minus_x |-> from_be_hex(<<\h428B, \hD0ED, \h61D0, \hCF53, \hA9C0, \hC1B4, \hFB68, \hC677,
                                   \hAE15, \h3D50, \h9482, \h40BD, \hDCA6, \h422C, \h6D26, \h0417>>),
       xy2d |-> from_be_hex(<<\h2739, \h8308, \hDA2D, \h63E6, \h8C52, \h545B, \h53FD, \hBBD1,
                              \hD4D8, \hC335, \h65D8, \hFACD, \h9213, \h189A, \h5E84, \h9AA7>>)],
      [y_plus_x |-> from_be_hex(<<\h572C, \h2945, \h492C, \h33FD, \hFFB9, \hD9B5, \hCD27, \hDAF7,
                                  \h0FA2, \h5866, \hD57D, \h1BDE, \hB9A1, \h0E4C, \h0A70, \h2453>>),
       y_minus_x |-> from_be_hex(<<\h2695, \h97AE, \hBE8C, \h3355, \hBB07, \hAB1A, \h79DA, \h03EF,
                                   \hBD50, \hF360, \h3278, \hCCC9, \h42C3, \h8D28, \h435E, \hD413>>),
       xy2d |-> from_be_hex(<<\h7F98, \h5498, \hC05B, \hCA80, \hA22C, \h8830, \hAA5D, \hDA0C,
                              \hE4DF, \hE8D3, \hE3BA, \hAEFB, \hC77F, \hC745, \hD6CD, \h30BE>>)],
      [y_plus_x |-> from_be_hex(<<\h30F2, \h653C, \hD69B, \h12E7, \hEEC2, \h4FBC, \h873F, \hA0C2,
                                  \h0804, \h5A45, \hCF4D, \hFBA6, \hD356, \h1552, \h0FBF, \h6363>>),
       y_minus_x |-> from_be_hex(<<\h76C2, \hEC47, \h0A31, \hF304, \h3DA3, \hC39F, \h23FC, \h921C,
                                   \h8005, \hAD1B, \h7B54, \hA288, \h3849, \hCE88, \h9F0B, \hE117>>),
       xy2d |-> from_be_hex(<<\h2F12, \h73F1, \h5964, \h73DA, \hA920, \hC01E, \h0E6F, \hAC70,
                              \h4617, \h9B60, \hDB27, \h6BCB, \h8A08, \hC938, \hAAC1, \h0C85>>)],
      [y_plus_x |-> from_be_hex(<<\h38AC, \h1997, \hEDC5, \hF784, \hEAD1, \hA69E, \hBC59, \h6162,
                                  \h06D6, \hB5A4, \hF1D4, \h42E7, \h3048, \h8BD7, \h55A7, \h0BC0>>),
       y_minus_x |-> from_be_hex(<<\h5D9E, \h572A, \hD85B, \h69F2, \h41D9, \h8A82, \h8772, \h8F2E,
                                   \hFD52, \h7490, \h4A6A, \hAB9F, \h4739, \hFC7C, \h8AE0, \h1E11>>),
       xy2d |-> from_be_hex(<<\h22DF, \hCD9C, \hBFE9, \hE69C, \hACAC, \hC011, \h454D, \hDE49,
                              \h747D, \h0686, \h7E9B, \h858C, \h0666, \hB517, \hA751, \hB13B>>)],
      [y_plus_x |-> from_be_hex(<<\h0FE9, \h8778, \h24CD, \hE472, \h797C, \hB294, \h13F5, \hCD32,
                                  \h2EE3, \hBAEC, \hD259, \hF969, \h56EC, \h59B4, \h103B, \hE0A1>>),
       y_minus_x |-> from_be_hex(<<\h6B29, \h16C0, \h5448, \hC1C7, \h8F6B, \h258C, \h322A, \h961F,
                                   \hAD8E, \h665F, \hACBB, \h4333, \h8DDB, \hD2E0, \hC30D, \h0CD9>>),
       xy2d |-> from_be_hex(<<\h4C30, \h3F30, \h7FF0, \h0A17, \h6608, \h3DFF, \h6578, \hF815,
                              \h4EA3, \hCD82, \h2E6D, \hAC0E, \h7EDB, \h34D1, \h0ABA, \h913B>>)],
      [y_plus_x |-> from_be_hex(<<\h416B, \h151A, \hB706, \hA1D5, \h130A, \h155F, \hC2E2, \hA7F8,
                                  \hECD2, \h7AA4, \h6FBB, \hEC93, \h29FC, \h0358, \h0DD9, \h4500>>),
       y_minus_x |-> from_be_hex(<<\h0D61, \hB8F7, \h8B2A, \hB7C4, \hC6C6, \hE78C, \h1E6A, \h5CBF,
                                   \hC5D3, \h77B7, \h3977, \h3BEA, \hD30A, \h3BD6, \h17B2, \h8C85>>),
       xy2d |-> from_be_hex(<<\h191A, \h2AF7, \h4277, \hE8D2, \hAFE6, \h2FDA, \h1B57, \hE0AB,
                              \hBD07, \hE5CD, \h58E4, \h4B20, \h56A8, \hD7EF, \hE9C1, \h36B0>>)]>>,
    \* LookupTable 6
    <<
      [y_plus_x |-> from_be_hex(<<\h237E, \h7DBE, \h0054, \h5B93, \hF052, \h210E, \hB7A0, \hDA24,
                                  \hDED3, \h03D4, \hA636, \h07D6, \h9FE6, \h2B43, \h4F46, \h0EFB>>),
       y_minus_x |-> from_be_hex(<<\h7E2E, \h0E45, \h0B5C, \hC908, \hB8B9, \hC36F, \hB5B2, \h3EE7,
                                   \h2B97, \h25CE, \h2072, \hEDDE, \hCE16, \hF74B, \hC53C, \h1431>>),
       xy2d |-> from_be_hex(<<\h71AF, \hA699, \hB111, \h55E3, \h7532, \h0F15, \h83E4, \h7F22,
                              \h2310, \h94E6, \h9F0B, \hFD10, \h0135, \h75ED, \h6701, \hB430>>)],
      [y_plus_x |-> from_be_hex(<<\h0073, \h1FBC, \h78F8, \h9A1C, \h9B84, \hBF5F, \hB2C9, \hBE95,
                                  \h51E8, \h7A1F, \h3B38, \hEF10, \hEA42, \h3C1C, \h473B, \h50D6>>),
       y_minus_x |-> from_be_hex(<<\h0211, \h42E9, \hC2B1, \hC28E, \h0F43, \h5FFD, \hA9F7, \h59FE,
                                   \hC658, \h39EA, \hAFA1, \h41E6, \h65CE, \h6F9B, \h3953, \hB61D>>),
       xy2d |-> from_be_hex(<<\h4C4D, \h6F33, \h47E1, \h5808, \hB6DA, \hE083, \h6BBA, \h15E3,
                              \hBF96, \h0C22, \h5ECE, \hC119, \hE430, \hC718, \h48F8, \h1880>>)],
      [y_plus_x |-> from_be_hex(<<\h38BF, \h9500, \hA88F, \h9FA8, \h6EC7, \hB6C4, \h7791, \h76BE,
                                  \h6B91, \h6227, \hB0B9, \hF51B, \h2F0C, \hDDFC, \h988F, \h1970>>),
       y_minus_x |-> from_be_hex(<<\h193F, \hDDAA, \hA7E4, \h7A22, \hDBDE, \h712B, \hF7EE, \h0CDF,
                                   \h6C75, \hF5A6, \h5140, \h3C14, \h18F7, \hECCF, \hC17D, \h1FC9>>),
       xy2d |-> from_be_hex(<<\h6A6F, \hB99E, \hBF0D, \h4969, \h5080, \hF582, \h3924, \h1276,
                              \hA2F6, \h1E5A, \h18D1, \h462C, \h1FD2, \hC93C, \h37E8, \h876F>>)],
      [y_plus_x |-> from_be_hex(<<\h136F, \hDA9F, \h42C5, \hEB10, \h90A9, \h2A83, \h1DCF, \h5D8C,
                                  \h939D, \h7010, \hF286, \hFF8E, \hEEB1, \h22B5, \hB6E4, \h23C6>>),
       y_minus_x |-> from_be_hex(<<\h75F7, \h6914, \hA318, \h96EA, \hD71D, \h1137, \h8F71, \hACC1,
                                   \h2416, \hBB38, \hF893, \hF09D, \h6A46, \hC1BB, \h5608, \h55EB>>),
       xy2d |-> from_be_hex(<<\h0221, \h8351, \h0BE8, \hDCBA, \h2A87, \hD8A5, \hC3BB, \h588A,
                              \h0F36, \h4B9D, \h9FF8, \h2C08, \hF94C, \hDFB1, \hA305, \hBDD1>>)],
      [y_plus_x |-> from_be_hex(<<\h1387, \hC441, \hFD40, \h426C, \h22BB, \hFE52, \hBE92, \h7AD3,
                                  \hB063, \hDE9E, \hC47D, \hA45F, \h9D5A, \h7101, \h4330, \h7A7F>>),
       y_minus_x |-> from_be_hex(<<\h6A07, \h1CE1, \h7B80, \h6C03, \h0D13, \hA6E6, \h1021, \h1E3D,
                                   \hA08E, \hD880, \hCA7C, \h5830, \h4AF7, \h6638, \h5EAD, \h2D14>>),
       xy2d |-> from_be_hex(<<\h3171, \hB26A, \hAF1E, \hDC92, \h0D7B, \h4848, \hBB47, \h7CA0,
                              \h722B, \h5A3D, \h7F0E, \h4413, \hB5D3, \hC3D1, \h8797, \h8AF8>>)],
      [y_plus_x |-> from_be_hex(<<\h6C51, \h4A63, \h3442, \h43E9, \hD4A1, \hF893, \h53DD, \hBD58,
                                  \hA6BF, \h14D6, \h1770, \hA4F1, \hA60D, \hB7D8, \hB28A, \h47D1>>),
       y_minus_x |-> from_be_hex(<<\h221F, \hD487, \h3CF0, \h835A, \h4F55, \hFE37, \hA487, \h5150,
                                   \hFF7B, \hB84C, \h2275, \hE119, \hA92F, \h3190, \h9756, \h4CA8>>),
       xy2d |-> from_be_hex(<<\h48DA, \hA596, \hFB92, \h4AAA, \hFCE0, \hDD4C, \h410F, \h030E,
                              \hFB73, \hE0E9, \hBA0A, \h032D, \h2322, \h204F, \h3A15, \h6341>>)],
      [y_plus_x |-> from_be_hex(<<\h58C8, \h37FA, \h0E8A, \h79A9, \hCDF5, \hB88F, \h3462, \h77AC,
                                  \h9941, \hF9E3, \hEF41, \h8206, \h14F6, \h1D5D, \hC84C, \h9793>>),
       y_minus_x |-> from_be_hex(<<\h676D, \hD6FC, \hCAD8, \h4AF7, \h31AF, \hC708, \hD21E, \h17CE,
                                   \hA847, \h254B, \h2E38, \hACA0, \h6ECA, \h8E66, \h5CA5, \h9CC7>>),
       xy2d |-> from_be_hex(<<\h1C4F, \h73F2, \hC6A5, \h7F0A, \hDCC2, \hE77D, \h4935, \hD66A,
                              \h1DDC, \hBBF3, \h7B56, \hA01B, \h0CF9, \h6885, \h96FC, \h9058>>)],
      [y_plus_x |-> from_be_hex(<<\h7045, \h9ADB, \h7DAF, \h675C, \hEB1D, \h79C9, \h781C, \hC7E5,
                                  \h73DF, \hC9B4, \hC3C1, \hCF61, \hB36E, \h706E, \hFC7C, \h3484>>),
       y_minus_x |-> from_be_hex(<<\h795A, \hC80D, \h1BF6, \h4C42, \hF421, \hC383, \h2FE3, \h3848,
                                   \h829D, \h4CE0, \h54C6, \h63AD, \h0E7A, \h4FBD, \h305F, \hA0BB>>),
       xy2d |-> from_be_hex(<<\h5FE1, \h6284, \h8CE2, \h1FD3, \h9FDF, \h9EE5, \h1F8C, \h78DC,
                              \h5726, \h9623, \h4B02, \hDCCA, \h1B91, \hDB49, \h91B4, \h2BB3>>)]>>,
    \* LookupTable 7
    <<
      [y_plus_x |-> from_be_hex(<<\h2B44, \hC043, \h677D, \hAA35, \hDC0B, \hFFAB, \h2168, \h7891,
                                  \hB8DE, \hDD70, \h687D, \hF2E7, \h2879, \h852D, \h5D7C, \hB208>>),
       y_minus_x |-> from_be_hex(<<\h4789, \hD446, \hFC91, \h7232, \h9300, \hCFD2, \h3B50, \hF22D,
                                   \h49BE, \h7DC7, \h0D71, \hCD4F, \h4E59, \h214F, \hE194, \h961A>>),
       xy2d |-> from_be_hex(<<\h60C5, \h2EEF, \h2BB9, \hA4E4, \h3EAC, \hBBCD, \h484F, \h9067,
                              \hFAC6, \hD18E, \h99DA, \hF467, \h1A1C, \h87AB, \h074E, \hB78E>>)],
      [y_plus_x |-> from_be_hex(<<\h70D7, \h7248, \hD9B6, \h676D, \hEFBC, \h4056, \hBA49, \h2EB2,
                                  \h44C7, \h699B, \h54A4, \h8CAB, \h702B, \hC5C2, \h7CAE, \h6D11>>),
       y_minus_x |-> from_be_hex(<<\h10BC, \h9C31, \h2CCF, \hCAAB, \h0E4C, \h16B0, \hD530, \h28F5,
                                   \hB06B, \h9237, \hC9F3, \h551A, \h0B5D, \h89BC, \h3BFD, \h8BF1>>),
       xy2d |-> from_be_hex(<<\h6375, \h5BD3, \hA976, \hF413, \h7945, \h13E4, \h708E, \h85D1,
                              \h9869, \h9EF4, \hED17, \h81E0, \hAA8A, \hE84B, \h3EC2, \hA05B>>)],
      [y_plus_x |-> from_be_hex(<<\h2763, \h7517, \h37C5, \h2A56, \h508E, \h5B9C, \h0FA1, \h020F,
                                  \h5DDA, \h7D5E, \hC165, \hBBD8, \h3DC7, \h1018, \h97F1, \hACB7>>),
       y_minus_x |-> from_be_hex(<<\h0D8C, \hC1C4, \h8BC1, \h6F84, \h9FF9, \hF1FD, \hBE69, \hB890,
                                   \h356F, \h7590, \h9EE6, \h3569, \hB55F, \hA03E, \h2AD1, \h0853>>),
       xy2d |-> from_be_hex(<<\h70C2, \hDD8A, \h7AD1, \h66E7, \hCFA8, \h6230, \hD43C, \h4956,
                              \hF0B4, \h4E7E, \h77B4, \h60A5, \h0294, \h02D3, \h6EB4, \h19A9>>)],
      [y_plus_x |-> from_be_hex(<<\h32B8, \h6138, \h16A5, \h3CE5, \hE409, \h82E0, \h0D85, \h2564,
                                  \h7425, \h2F0A, \hD776, \h817A, \h91D4, \h967D, \hB8ED, \h7E13>>),
       y_minus_x |-> from_be_hex(<<\h2E0F, \hAC63, \h6394, \h8495, \h9733, \hC1F3, \h67E0, \h9B5C,
                                   \hEE2E, \h7EA9, \h46C6, \h518D, \h6561, \h9450, \h9F6F, \hEC0E>>),
       xy2d |-> from_be_hex(<<\h4179, \h215C, \h735A, \h4F41, \hF89F, \hD4D9, \hA0E4, \hDB2E,
                              \h6AC8, \h3A67, \h0878, \h86D0, \h79E7, \hF7BE, \hE448, \hCD64>>)],
      [y_plus_x |-> from_be_hex(<<\h31FA, \h8566, \h2241, \hC286, \h278B, \h141F, \hB3D3, \h8E1F,
                                  \hB7EF, \h7EB6, \h559D, \hD6DC, \hE4AE, \h33B9, \h286B, \hCD34>>),
       y_minus_x |-> from_be_hex(<<\h7003, \h44A3, \h0CD9, \h9D76, \hE13B, \hE033, \hA906, \hD902,
                                   \h97FB, \h8AC3, \h47D3, \h9C70, \h8C70, \h94E7, \hD7DC, \hED2A>>),
       xy2d |-> from_be_hex(<<\h24BB, \h2312, \hA995, \h2489, \h9BC1, \hB7E1, \h2B38, \h9123,
                              \hC120, \h2987, \h9833, \h502D, \hAF82, \h6C42, \h2E36, \h22F4>>)],
      [y_plus_x |-> from_be_hex(<<\h0D1D, \h2AF9, \hFFEB, \h5D16, \h8945, \hDF99, \hA3BA, \h1BAD,
                                  \h6872, \h84C3, \h04FA, \h6794, \h41F8, \h0C2A, \hF5F8, \h5C6B>>),
       y_minus_x |-> from_be_hex(<<\h0FEE, \h3E87, \h1E18, \h8008, \h8EBD, \h4343, \h76CF, \hBCD2,
                                   \h3CB4, \h9418, \h461B, \h4948, \hB1A8, \hED17, \h32DE, \h67C3>>),
       xy2d |-> from_be_hex(<<\h16AC, \hD797, \h1853, \h1D76, \h4004, \h197B, \hA79A, \hC193,
                              \h30B8, \h22A1, \h5922, \h6579, \hA9DA, \h8AA1, \h3262, \h1EDF>>)],
      [y_plus_x |-> from_be_hex(<<\h164E, \hD34B, \h1816, \h1700, \h16E2, \h4E62, \hA342, \hF504,
                                  \h94E1, \h9EAD, \h5F90, \hFEBA, \hC959, \hC6C5, \h7887, \hB6AD>>),
       y_minus_x |-> from_be_hex(<<\h123E, \h0EF6, \hB930, \h2309, \h3ECE, \hA079, \h16B3, \h9637,
                                   \h6346, \h2A36, \hA432, \h245A, \h72DF, \h72AF, \h2D9B, \h1D3D>>),
       xy2d |-> from_be_hex(<<\h78DA, \h0FC6, \h1073, \hF3EB, \h877B, \hF6D3, \hB9A4, \hDE27,
                              \h61AE, \h2CEA, \h3A91, \h1513, \h487E, \hD94C, \h192F, \hE69A>>)],
      [y_plus_x |-> from_be_hex(<<\h054A, \hA4B3, \h16B3, \h8DDD, \h1100, \hF158, \h4801, \h7973,
                                  \h71F7, \h7E15, \h1AE9, \hE7E6, \hA29F, \h80F1, \h680C, \h3A94>>),
       y_minus_x |-> from_be_hex(<<\h2D25, \hDEEB, \h256B, \h173A, \h2419, \hAFBC, \h06C2, \h8BDD,
                                   \h2C47, \hE318, \h70F0, \h1A8E, \h5BF1, \h5D28, \hE52B, \hC66A>>),
       xy2d |-> from_be_hex(<<\h1346, \h10A6, \hAB7D, \hA760, \h2AEB, \h1D2A, \h666E, \hEC17,
                              \h0B28, \h789C, \h66E5, \h4DAF, \hDFC8, \h468D, \h1926, \h7CB8>>)]>>,
    \* LookupTable 8
    <<
      [y_plus_x |-> from_be_hex(<<\h6548, \h78CB, \hA97C, \hC9FB, \hB1B7, \h3BBC, \hDABC, \h06E5,
                                  \h5489, \h9187, \h8FAA, \h60F1, \hCD2A, \h65E7, \h77D1, \hF515>>),
       y_minus_x |-> from_be_hex(<<\h2102, \hFDBA, \h2B20, \hD650, \h0920, \h7A1D, \h717A, \hF1B9,
                                   \h5397, \hDA89, \hE575, \hF51B, \h5113, \h8EC7, \h8DF6, \hB0FE>>),
       xy2d |-> from_be_hex(<<\h0AD7, \h25DB, \h29EC, \hB2BA, \h3A1A, \hF517, \hAA7D, \hA415,
                              \h36BC, \hA768, \h1251, \hAD29, \h969E, \hE405, \h055C, \hE6A1>>)],
      [y_plus_x |-> from_be_hex(<<\h4F67, \h5F53, \h0239, \h9FD9, \h77AF, \hC662, \h4312, \hAEFA,
                                  \h537D, \h5268, \hE7F5, \hFFD7, \hFEC7, \hBC0C, \h9B05, \h6F85>>),
       y_minus_x |-> from_be_hex(<<\h4AEF, \hCFFB, \h71A0, \h3650, \h1AF0, \h7A0B, \hF7D1, \h5ED7,
                                   \hB675, \h44B5, \h70CE, \h1BC5, \hDC42, \h67B1, \h834E, \h2457>>),
       xy2d |-> from_be_hex(<<\h0BCC, \hBB72, \hA2A8, \h6561, \h870A, \h6EAD, \hD094, \h5110,
                              \hCD2B, \hEF11, \h8998, \h483B, \hC32D, \h3636, \h0415, \h171E>>)],
      [y_plus_x |-> from_be_hex(<<\h6678, \hFD69, \h108F, \h37C2, \h3BC7, \hF6C5, \h5070, \h31B0,
                                  \hE039, \h7B82, \hFEE8, \h9F7E, \h186D, \h5E4C, \h50FE, \h1296>>),
       y_minus_x |-> from_be_hex(<<\h4024, \hF0AB, \h59D6, \hB73E, \hB092, \hE031, \hBB5B, \h6DF2,
                                   \h86E7, \hE635, \h6514, \h7DCD, \h185E, \h962F, \hEAB1, \hA9C8>>),
       xy2d |-> from_be_hex(<<\h2D42, \hE210, \h8EAD, \h4701, \h4F73, \hCC9F, \h789E, \hAEFC,
                              \h07F6, \h8C48, \h572D, \h33F2, \h1586, \hFA31, \h6368, \h63C2>>)],
      [y_plus_x |-> from_be_hex(<<\h420B, \hF3A7, \h9B42, \h3C6E, \h1BB6, \h87AE, \h752A, \hE09F,
                                  \h914E, \h690B, \h131E, \h064C, \h2171, \h7B0D, \h0F53, \h7593>>),
       y_minus_x |-> from_be_hex(<<\h676B, \h2608, \hB8D2, \hD322, \hEBA1, \h3F07, \h0845, \h5010,
                                   \h6155, \h985D, \h313F, \h4C6A, \h97F5, \h1315, \h94DF, \hD29B>>),
       xy2d |-> from_be_hex(<<\h745D, \h2FFA, \h9C0C, \hF1E0, \h7BFF, \h0CB1, \hBC31, \h35B0,
                              \h8671, \hB6EC, \h311B, \h1B80, \h8138, \hBA65, \h1C5B, \h2B47>>)],
      [y_plus_x |-> from_be_hex(<<\h06E1, \h5BE5, \h4C1D, \hC839, \hD3C2, \h09C3, \hC875, \h6AFA,
                                  \hB1DB, \h8827, \h997B, \hB3D0, \h6036, \hDF57, \h21D3, \h4E6A>>),
       y_minus_x |-> from_be_hex(<<\h1AE2, \h3CEB, \h960C, \hF5D0, \hD511, \hC70E, \hDF01, \h55DB,
                                   \hEA5B, \h2608, \h2647, \h9D81, \hBF52, \h5A1E, \h2BC9, \hC8BD>>),
       xy2d |-> from_be_hex(<<\h58DE, \hD861, \h278E, \hC1F7, \h7DC4, \h1549, \hDAB7, \hCA05,
                              \h3235, \h1CB5, \hCEB1, \hDAB0, \h5B72, \h5D87, \h1932, \h994A>>)],
      [y_plus_x |-> from_be_hex(<<\h08BA, \h696B, \h531D, \h5BD8, \h3380, \h9107, \hF12D, \h1573,
                                  \h48EE, \hEF8E, \hF52C, \h598C, \h2DFB, \h5BA8, \hB6C2, \hC9A8>>),
       y_minus_x |-> from_be_hex(<<\h2FF3, \h9DE8, \h5485, \hF6F9, \h5CE3, \h82F8, \hBC26, \hC3A8,
                                   \hC8C9, \h76C5, \hCC45, \h4E49, \hD817, \h3793, \hF266, \hC55C>>),
       xy2d |-> from_be_hex(<<\h1206, \h33B4, \h947C, \hFE54, \hEA3D, \h7A3F, \hF1A6, \h71CB,
                              \h04E0, \h5517, \hD4FF, \h4811, \h77ED, \h3EEE, \hC3EF, \hC57A>>)],
      [y_plus_x |-> from_be_hex(<<\h0743, \h3BE3, \hCB39, \h3BDE, \hE11E, \h7619, \h11EA, \h79C6,
                                  \hDE23, \h7B6D, \h7E6F, \hBE06, \h82BD, \h3147, \h4912, \h100A>>),
       y_minus_x |-> from_be_hex(<<\h35D3, \h0A99, \hB4D5, \h9185, \h70BE, \h7395, \h94F0, \hA4C0,
                                   \h4EE7, \hB13C, \hECEB, \hFAE8, \h0B94, \h9878, \h9161, \h0042>>),
       xy2d |-> from_be_hex(<<\h2D87, \h3EDE, \h7AF6, \hDA9F, \h5833, \h81FD, \h5A76, \h847C,
                              \h575D, \h3DE4, \hB05C, \h51A3, \hFF79, \h44C0, \h5CE9, \h97F4>>)],
      [y_plus_x |-> from_be_hex(<<\h0543, \h618A, \h0160, \h0253, \h18A2, \h75D3, \hBAE2, \h1D6C,
                                  \hA20D, \h5917, \h5015, \hE1F5, \hAA62, \h02E1, \h4E5D, \hF981>>),
       y_minus_x |-> from_be_hex(<<\h2E77, \h3654, \h707F, \hA7B6, \hB093, \hFEE6, \hF5A6, \h4806,
                                   \hFAB8, \hB7EE, \hF4AA, \h81D9, \h157A, \h3164, \h4337, \h3409>>),
       xy2d |-> from_be_hex(<<\h4B14, \h4336, \h2D07, \h960D, \h0420, \h2CB8, \hA29A, \hBA2C,
                              \hAA6F, \h0A25, \h9DCE, \h4693, \h0DEA, \hBDF4, \h974C, \h23C1>>)]>>,
    \* LookupTable 9
    <<
      [y_plus_x |-> from_be_hex(<<\h1703, \h8418, \hEAF6, \h6F5C, \h2747, \hAFF4, \h7812, \h1965,
                                  \h30F6, \h2692, \h64C6, \h35FB, \h967C, \h54E9, \h1C52, \h9CCB>>),
       y_minus_x |-> from_be_hex(<<\h582F, \h4467, \h52DA, \h63F7, \h3EF0, \h6DFC, \h713E, \hAF1C,
                                   \h4415, \h7E25, \hF50C, \h2F7E, \hCCC4, \hB7C7, \hB66E, \h1F7A>>),
       xy2d |-> from_be_hex(<<\h0C2A, \h1C4B, \hCDA2, \h8DC9, \hB21E, \hF18B, \h4E5A, \h1364,
                              \hA810, \h42E8, \hA448, \h8BC4, \hC631, \h7BD3, \h2032, \h4CE4>>)],
      [y_plus_x |-> from_be_hex(<<\h5A6A, \h9B30, \hA314, \hDC83, \hC63B, \hD212, \hD55C, \hC5AB,
                                  \h0D6D, \h907D, \hBE1C, \h8D22, \hEDC4, \h8148, \h69BD, \h6945>>),
       y_minus_x |-> from_be_hex(<<\h7C55, \h8BD1, \hC6F6, \h4877, \hD15B, \h0272, \hFBB2, \hD28F,
                                   \hB226, \h9E3E, \hDB87, \hC059, \hD24D, \hC7D0, \h6F1F, \h0447>>),
       xy2d |-> from_be_hex(<<\h0404, \hA5CA, \h0AFB, \hAFC3, \hA50C, \h3A79, \h1CBC, \h5FA4,
                              \h12BB, \h628A, \hC35A, \h24F0, \hD0EC, \h1524, \hD396, \h463D>>)],
      [y_plus_x |-> from_be_hex(<<\h3952, \h7516, \hE7F8, \hEE98, \h0434, \h3FD8, \h3D5D, \h6967,
                                  \hB5C6, \hF728, \hE350, \h598B, \h62BC, \h9E1B, \h2A41, \h6FD1>>),
       y_minus_x |-> from_be_hex(<<\h4639, \h5BFD, \hCADD, \h9633, \h574B, \h046B, \h668F, \hD2DE,
                                   \hCCBA, \hD0CB, \h5B26, \h5EE8, \h8C1F, \h4007, \h0AA7, \h43D6>>),
       xy2d |-> from_be_hex(<<\h7657, \h9A29, \hE822, \hD016, \hEFD4, \hBEF1, \h54D5, \h6FEA,
                              \h9C77, \h45BC, \hD100, \h5C2A, \h117F, \hDB2D, \h1A5D, \h9A9C>>)],
      [y_plus_x |-> from_be_hex(<<\h02C5, \h14BB, \h2A27, \h77C1, \hB551, \h2887, \h750D, \h35CE,
                                  \hD832, \h2849, \h93DE, \h80E1, \h333C, \hB513, \h52B4, \h34F2>>),
       y_minus_x |-> from_be_hex(<<\h43A3, \h84DC, \h9E05, \hBDB1, \h3ED6, \h5F11, \hEC22, \h4C1B,
                                   \h23CD, \h51A2, \hBCA9, \hA37F, \h45B6, \h8E7E, \h49C0, \h2A17>>),
       xy2d |-> from_be_hex(<<\h1160, \h9209, \h6154, \h8059, \h3139, \h16D7, \hA9B0, \hD253,
                              \hFB8B, \hD37E, \hF6B5, \h4B53, \h684B, \hD5DA, \h8BF1, \hB645>>)],
      [y_plus_x |-> from_be_hex(<<\h2F63, \h7D74, \h91E6, \hE042, \h7DC2, \h1BF9, \hD4F1, \h8021,
                                  \h75C0, \h2CA7, \h655C, \h3563, \h7A38, \h5616, \h369B, \h4DCD>>),
       y_minus_x |-> from_be_hex(<<\h351E, \h125B, \hC569, \h8E0B, \hE9EF, \h63CA, \h453D, \h5559,
                                   \hDA52, \h9F4C, \h8413, \h598F, \hB44D, \h1669, \h29DA, \hCFAA>>),
       xy2d |-> from_be_hex(<<\h7F18, \h2D06, \hE7CE, \h2A9A, \h71DE, \hE19F, \hF9A6, \h99FB,
                              \hD603, \h037A, \hC8AB, \h8961, \hD4B4, \h9B46, \h1AF6, \h7BBE>>)],
      [y_plus_x |-> from_be_hex(<<\h44AC, \hC043, \h241C, \h5217, \hD358, \h254D, \h7F46, \h903C,
                                  \hAA58, \hE8F4, \hD484, \hB8D8, \h0945, \h4B72, \h8E21, \h7522>>),
       y_minus_x |-> from_be_hex(<<\h67D4, \hAC8C, \h343E, \h93B0, \h0955, \h19D3, \h47CD, \h0EDA,
                                   \hCB5A, \h4A55, \h15ED, \hC543, \h7A7C, \h8E64, \hAB01, \h68EC>>),
       xy2d |-> from_be_hex(<<\h556D, \h1C83, \h12AD, \h71BD, \h4ADC, \hA1C6, \hC96B, \h4684,
                              \h8B35, \hFED4, \h9183, \h13E1, \h1C7D, \h6BBB, \h4F7A, \h5777>>)],
      [y_plus_x |-> from_be_hex(<<\h097A, \hBE38, \hCC8C, \h7F05, \hF8B2, \hD055, \h6A99, \h465D,
                                  \h0FAF, \hF823, \h10A3, \hF3DD, \h81F0, \h6756, \hB11B, \hE821>>),
       y_minus_x |-> from_be_hex(<<\h746C, \h6C6D, \h1D82, \h4EFF, \h4F21, \hF3CB, \h0773, \h646E,
                                   \h31F7, \h073E, \h15A3, \hFA34, \h17EF, \h40E3, \h0C8D, \h3982>>),
       xy2d |-> from_be_hex(<<\h577E, \h14A3, \h4BEE, \h84BD, \h022C, \h3809, \hF7CC, \hEBD2,
                              \h4C43, \h6955, \h9BDC, \h1D43, \h0C49, \hC987, \h7EA5, \h2DA4>>)],
      [y_plus_x |-> from_be_hex(<<\h7053, \h04B8, \hFB00, \h9295, \h124A, \h5977, \hC0C8, \hD1FF,
                                  \hF46A, \h4FDA, \h060F, \h2211, \h94FE, \hCEBE, \hBD4D, \hD72B>>),
       y_minus_x |-> from_be_hex(<<\h60FA, \h7EE9, \h6FD7, \h8F42, \hC1E1, \h3E82, \h6B6D, \h00E9,
                                   \hF2FA, \hFA10, \h3791, \hA5F5, \hF0E2, \h68AC, \h61A7, \h3B0A>>),
       xy2d |-> from_be_hex(<<\h2139, \h8E0C, \hA163, \h53FD, \h670B, \h958C, \hB4BD, \h42EC,
                              \hF3C3, \h053E, \h5FAD, \h31D8, \hB63D, \h1D35, \h4D29, \h6EC6>>)]>>,
    \* LookupTable 10
    <<
      [y_plus_x |-> from_be_hex(<<\h1BBF, \hB284, \hE98F, \h7D4E, \hD2CE, \hAA61, \h61B7, \hA023,
                                  \h5EAC, \h7213, \h5C8D, \hAD72, \h2798, \hAAF9, \hB4B7, \h5601>>),
       y_minus_x |-> from_be_hex(<<\h5AA3, \hED9D, \h95A2, \h32E6, \h8F93, \hB503, \hA53D, \hB36E,
                                   \h5AE2, \hBA0B, \hAD48, \hC0B4, \h89F5, \h058A, \h382B, \h33F3>>),
       xy2d |-> from_be_hex(<<\h4A07, \hE14E, \h5E89, \h57CC, \h6505, \h3299, \hD950, \h6EEE,
                              \hCB2B, \h1254, \h72C7, \h8036, \h6567, \h77E9, \hC7D9, \h6561>>)],
      [y_plus_x |-> from_be_hex(<<\h50AF, \h7AED, \h84AF, \hA081, \h1992, \h8D32, \hA7C8, \h6AAD,
                                  \hFD38, \hDADE, \h6447, \hF017, \h240B, \h58CD, \hC477, \hA49B>>),
       y_minus_x |-> from_be_hex(<<\h3F0B, \hAC39, \h1D31, \h3402, \hBBA5, \hEDDE, \h925C, \h77FD,
                                   \hA315, \hD76F, \h3C6E, \hC771, \h4EE4, \h12CB, \h980D, \hF999>>),
       xy2d |-> from_be_hex(<<\h1921, \hA316, \hBAEB, \hD006, \h7802, \h0581, \h0BAD, \hD6D9,
                              \h2998, \h2621, \h2161, \h09B2, \h6E4F, \hDE01, \h15F6, \h5BE5>>)],
      [y_plus_x |-> from_be_hex(<<\h7B04, \h9DEC, \hA062, \hC7F5, \h3E9A, \h0BAC, \h255C, \h0ED9,
                                  \h566A, \h0EEF, \h60B1, \hC19C, \hD75A, \hAD9A, \hD9F3, \hC18B>>),
       y_minus_x |-> from_be_hex(<<\h6458, \hDF41, \hE273, \hAEB0, \h0738, \hF1D4, \h36C2, \h4DF7,
                                   \h2C29, \h6BEB, \h4F76, \hB3BD, \h8942, \h2F7E, \hDFB8, \h70FC>>),
       xy2d |-> from_be_hex(<<\h6093, \hDCCB, \hC295, \h0E64, \h7860, \h04C3, \h12C5, \hDD87,
                              \h7588, \h7933, \h0FED, \hBE93, \hDCCB, \hE37A, \h3544, \h4483>>)],
      [y_plus_x |-> from_be_hex(<<\h6E31, \h80C9, \h8B64, \h7D90, \h9733, \h76AB, \hB62D, \h0695,
                                  \h3199, \hC2B6, \h780F, \hB854, \h6BDE, \hEEBE, \h6084, \h034B>>),
       y_minus_x |-> from_be_hex(<<\h57D1, \hEA08, \h4827, \hA97C, \h43B9, \hF2E1, \h718F, \h453B,
                                   \h36D0, \hA5D8, \hB3E7, \h3933, \h1FF3, \h9A85, \h85E0, \h706D>>),
       xy2d |-> from_be_hex(<<\h363E, \h999D, \hDD97, \hBD18, \hF7B4, \hDE82, \hB221, \h6130,
                              \hA4C1, \h596D, \h93A8, \h8BAA, \hEE7A, \hB6E7, \hA128, \hB071>>)],
      [y_plus_x |-> from_be_hex(<<\h231F, \h979B, \hC6F9, \hB355, \h90CB, \h3C6E, \h3CEF, \hE931,
                                  \h769B, \h7255, \hBABC, \hAF60, \h2F18, \h48DC, \hE24B, \hAEC6>>),
       y_minus_x |-> from_be_hex(<<\h48EE, \h9B78, \h693A, \h052B, \hB42F, \h6801, \hB58C, \hD330,
                                   \h976E, \hB355, \h08E4, \hC8CF, \h96A8, \h43C1, \h35EE, \h1FC4>>),
       xy2d |-> from_be_hex(<<\h079B, \hFA9B, \h0879, \h2413, \hB78D, \h7009, \hC14F, \hB466,
                              \hB04B, \hB030, \hFE20, \h8D1F, \h5C31, \hDE4B, \hCC2A, \hF3C6>>)],
      [y_plus_x |-> from_be_hex(<<\h1EF4, \hFB15, \h9470, \h636B, \hD76D, \hAC63, \hD108, \h5475,
                                  \h0AA0, \h8B78, \h77F6, \h3952, \hF3C9, \hED80, \hA2D5, \h4245>>),
       y_minus_x |-> from_be_hex(<<\h038C, \h77F6, \h8481, \h7194, \hED3C, \hF12D, \h0B35, \h6480,
                                   \h8439, \h6423, \h3DA9, \h5AB0, \hE390, \h3A51, \hDA30, \h0DF4>>),
       xy2d |-> from_be_hex(<<\h575E, \hE92A, \h4A0B, \hFF56, \h72B2, \hDF34, \h9810, \h2199,
                              \h5959, \h0A42, \h96D0, \hCDC2, \h854E, \h5EE6, \h5B16, \h7BEC>>)],
      [y_plus_x |-> from_be_hex(<<\h200A, \h1E7E, \h382F, \h581B, \h389E, \h3B26, \h2B89, \h06C2,
                                  \hC3AF, \h1227, \hA533, \hB9D8, \h5D46, \hBC45, \h0AA4, \hD801>>),
       y_minus_x |-> from_be_hex(<<\h43D4, \hE711, \h2CD3, \hFD00, \h05BA, \hBD57, \h52F7, \h33DE,
                                   \h30E1, \h70C2, \h9948, \h9DBD, \hD4C0, \h8090, \h8A18, \h2FCF>>),
       xy2d |-> from_be_hex(<<\h050E, \hCA52, \h651E, \h4E38, \hFE2B, \h85D9, \h5671, \h97F5,
                              \h71BC, \h989B, \h0566, \h52C0, \h518D, \hB967, \hEAF9, \h3AC5>>)],
      [y_plus_x |-> from_be_hex(<<\h6151, \hC09F, \hA131, \hAE57, \h4CB1, \h79B5, \h34EC, \hA79F,
                                  \h9B19, \hBBFE, \h153A, \hB497, \h97AC, \h3976, \h60E6, \h68EA>>),
       y_minus_x |-> from_be_hex(<<\h4B0E, \hE6C2, \h1C58, \hF4C6, \hFCD9, \h7AC9, \hED84, \h7B3D,
                                   \hE9F5, \h045E, \hFF70, \h3B9B, \hC343, \h1ADE, \h453F, \h0C9C>>),
       xy2d |-> from_be_hex(<<\h1FEF, \h24FA, \h800F, \h030B, \h11B2, \hBB87, \h1217, \h1709,
                              \hDD26, \h2EE0, \h2AB4, \hEE7A, \h3AF5, \h5C0D, \hFDF0, \h5D96>>)]>>,
    \* LookupTable 11
    <<
      [y_plus_x |-> from_be_hex(<<\h2800, \h5FE6, \hC834, \h0C17, \hDCA1, \h896C, \h4DE5, \hBAE5,
                                  \h8D90, \hB806, \hC2D2, \h4604, \h22D2, \hAFF5, \h3097, \h6B86>>),
       y_minus_x |-> from_be_hex(<<\h544D, \h4929, \h2FC8, \h613E, \hAD20, \h0B09, \hFB3A, \h17B2,
                                   \h0F94, \h9530, \h3FD7, \h6418, \h37D6, \h53FB, \h1AA7, \h3196>>),
       xy2d |-> from_be_hex(<<\h72E4, \h7293, \h0F31, \h6DFA, \hF75B, \hBBCD, \h66D9, \h4B36,
                              \h5C1B, \hFF94, \h2510, \h7DA1, \h6AEF, \hBA9F, \h3452, \h8688>>)],
      [y_plus_x |-> from_be_hex(<<\h1FEE, \h7F00, \h0FE0, \h6438, \h3C85, \hE797, \h28D0, \h4450,
                                  \h7AAA, \h4D86, \h5F65, \h66F0, \h07F3, \hF635, \hD32A, \h7627>>),
       y_minus_x |-> from_be_hex(<<\h5A9D, \h2E8C, \h2733, \hA34C, \hFD9D, \hAEA6, \h03EF, \hDE02,
                                   \hB150, \h2A0B, \h2345, \h0EE1, \h2695, \h208C, \h9781, \h084F>>),
       xy2d |-> from_be_hex(<<\h00F9, \h4051, \hEE04, \h0543, \h7B4A, \hD5CD, \hD24A, \h88EC,
                              \hA4DA, \hF249, \h1434, \hCDBD, \h7653, \h05DA, \h03DB, \hF7E5>>)],
      [y_plus_x |-> from_be_hex(<<\h47B7, \hFFD2, \h5DD4, \h0452, \hCE69, \h98BF, \h6E0B, \h1EC5,
                                  \h583E, \hD0CF, \h3DB7, \h66A7, \hD7EF, \h93BB, \h07AF, \h9753>>),
       y_minus_x |-> from_be_hex(<<\h07D7, \h9C7E, \h8BEA, \hB10D, \hB36C, \h316C, \h6E42, \hB83C,
                                   \hF21C, \h8B9B, \hB047, \h1B06, \h8D35, \h6B23, \hC3D3, \h30B2>>),
       xy2d |-> from_be_hex(<<\h1C35, \h20A3, \h5EA6, \h4BB6, \h0D57, \h242B, \hDB1F, \hC1BF,
                              \h8A06, \h6B3A, \hE1EE, \hC29B, \h87FB, \hFB9C, \hBC08, \hDD12>>)],
      [y_plus_x |-> from_be_hex(<<\h3875, \h0C3B, \h66D1, \h2E55, \hB495, \h6A9E, \h17C7, \h0990,
                                  \h1FBB, \h231D, \h12BC, \hD87E, \hCDA8, \h6F40, \h216B, \hC059>>),
       y_minus_x |-> from_be_hex(<<\h1C3D, \h0577, \h5D0E, \hE66F, \h90C3, \hB601, \h9882, \hE396,
                                   \h3E61, \hC3A1, \h3838, \h219B, \h80D2, \h53A6, \hBCCB, \hA34A>>),
       xy2d |-> from_be_hex(<<\h0621, \hE2C7, \hD330, \h487C, \h2101, \h4FE7, \h744C, \hE029,
                              \hCBC0, \hC73C, \h2B5D, \hF671, \h692E, \hF140, \h9422, \hE51A>>)],
      [y_plus_x |-> from_be_hex(<<\h5D8E, \h589C, \hA100, \h2E9D, \h2592, \h3071, \hE9AA, \hA3B4,
                                  \h54DF, \hAFB9, \hE17C, \hE196, \hB7AE, \h1796, \hB0DB, \hF0F3>>),
       y_minus_x |-> from_be_hex(<<\h0007, \hD609, \h7BD3, \hA5BC, \h6526, \h4837, \h6558, \h1E30,
                                   \h90EA, \h48C1, \hC69F, \h9ADC, \hAF98, \h60CC, \h8259, \h838D>>),
       xy2d |-> from_be_hex(<<\h1583, \hD778, \h3C1C, \hBF86, \h0A96, \h1438, \hBB51, \hE2EF,
                              \hB2D3, \hC363, \h588F, \h2E3E, \hC0BF, \h1D95, \h0842, \hA94B>>)],
      [y_plus_x |-> from_be_hex(<<\h4958, \h064E, \h83C5, \h580A, \h16E1, \h2B5F, \hBE5B, \h8726,
                                  \h1D1B, \h679E, \hF72C, \hC58F, \h9003, \h4704, \hCC9D, \h28C7>>),
       y_minus_x |-> from_be_hex(<<\h252A, \h5F2E, \h81ED, \h8F70, \hC9A6, \h2A12, \h6609, \h167A,
                                   \h597C, \h3A14, \h5567, \h0174, \hECEE, \hA2EF, \h5DA2, \h7AE1>>),
       xy2d |-> from_be_hex(<<\h079C, \h170B, \hD843, \hB388, \h1B53, \hDA78, \h0C11, \h12FD,
                              \hFCC3, \hF785, \h307C, \h8C6B, \h0D28, \h9426, \h5066, \hE80D>>)],
      [y_plus_x |-> from_be_hex(<<\h6768, \hC0D7, \h317B, \h8ACC, \h3CA6, \h723F, \hF3C3, \hEF48,
                                  \h9AF7, \h686D, \hBB03, \h573B, \hCDD6, \hCD50, \hC0D5, \hD056>>),
       y_minus_x |-> from_be_hex(<<\h6DEC, \h05E3, \h4AC9, \hFB00, \h3579, \h4224, \h51B8, \hEA42,
                                   \hBEE3, \h431E, \h6205, \hE523, \h0506, \hECE4, \h64FA, \h6FFF>>),
       xy2d |-> from_be_hex(<<\h5144, \h5E14, \hDDCD, \h52F4, \hC22C, \hBDDC, \h6D6B, \h2600,
                              \h417B, \hF3A7, \h997B, \h7B91, \h94B6, \h25E5, \hF155, \hC1B3>>)],
      [y_plus_x |-> from_be_hex(<<\h12E9, \h9008, \h6E4F, \hD43D, \h4B49, \hF948, \hBE30, \hF7A7,
                                  \h8C53, \hA24F, \h9207, \h9129, \h8931, \h47AB, \h2BBE, \hA455>>),
       y_minus_x |-> from_be_hex(<<\h1318, \h6F31, \hE392, \h95C8, \hB8BD, \h6927, \h1663, \h85DB,
                                   \h8E67, \hFF6B, \h444B, \hBCB3, \h5750, \h2B4B, \h3B14, \h4951>>),
       xy2d |-> from_be_hex(<<\h77B2, \hE3F0, \h5D3E, \h99AF, \hDF11, \h36C4, \h3A5B, \h983F,
                              \h9F9A, \h935E, \h121C, \hEAF9, \hF10C, \h96B3, \h7FDF, \hBB2E>>)]>>,
    \* LookupTable 12
    <<
      [y_plus_x |-> from_be_hex(<<\h07A1, \h9515, \h2E09, \h5E8A, \hD17C, \h2F03, \h58FC, \hE460,
                                  \hA5D1, \h9F30, \hC024, \h866B, \hD598, \h639C, \h12DD, \hB0A4>>),
       y_minus_x |-> from_be_hex(<<\h63B7, \h95FC, \h7AD3, \h255D, \h1C77, \h06D9, \h17A8, \hF908,
                                   \hBC8B, \h61BF, \h4F84, \hF3CB, \h296F, \hA9C5, \h9C2E, \hC4DE>>),
       xy2d |-> from_be_hex(<<\h3E8F, \hE83D, \h032F, \h0137, \hAFA1, \hFD5D, \hC541, \h2643,
                              \h9043, \h3B02, \hCF8D, \hE43B, \hA836, \h8F02, \h389E, \h5FC8>>)],
      [y_plus_x |-> from_be_hex(<<\h22D6, \h0899, \hA625, \h8C86, \hA59D, \h5DA5, \h1260, \hCDE3,
                                  \hDFC5, \h1A8E, \h33E0, \h3731, \h0870, \h4C8D, \hE8EF, \hD13C>>),
       y_minus_x |-> from_be_hex(<<\h75BA, \h3B79, \h7FAC, \h4007, \hDE1C, \h5AE1, \h61BB, \hFD84,
                                   \h94F2, \h4270, \h6708, \h4549, \h2F8B, \h15B9, \h0570, \hA294>>),
       xy2d |-> from_be_hex(<<\h0904, \hD07B, \h8777, \h9E5E, \hB388, \h47BC, \hEB40, \h1260,
                              \h60FE, \h8A8B, \h6C7D, \h8A9A, \h6239, \hDBC0, \h70CD, \hD196>>)],
      [y_plus_x |-> from_be_hex(<<\h6240, \hAACE, \hBAF7, \h2A6C, \h1676, \h97AD, \hA081, \hF931,
                                  \h0695, \h2F0C, \hBD2D, \h0C39, \hF432, \h2D66, \h48F9, \h40B9>>),
       y_minus_x |-> from_be_hex(<<\h43E2, \h143F, \hBC1D, \hDE07, \h2C63, \hCC63, \hAD86, \hCC51,
                                   \hCF31, \hDB3E, \hC74C, \h8DAA, \hB4CE, \h1FD4, \hDDBA, \h919C>>),
       xy2d |-> from_be_hex(<<\h56BD, \hAF23, \h8DB4, \h0CAC, \h66F1, \h3BA7, \hE7C9, \h316A,
                              \hD694, \h7C5B, \hCA37, \hD25A, \hF834, \h749C, \h5BA2, \h95A0>>)],
      [y_plus_x |-> from_be_hex(<<\h03AA, \h3150, \h7E1E, \h5754, \h7C9B, \h8591, \hD7A1, \h4F5C,
                                  \h062A, \h6BB7, \h6223, \h86B9, \h1310, \hD36C, \hC19D, \h3BB2>>),
       y_minus_x |-> from_be_hex(<<\h1D24, \hA86D, \h8374, \h1318, \h9E0E, \h1452, \h1D5A, \h5572,
                                   \h3385, \h68D5, \h6EB9, \h3D40, \h362A, \hB9E3, \hF535, \h33EB>>),
       xy2d |-> from_be_hex(<<\h43B2, \h61DC, \h9AEB, \h4859, \h88D2, \h2582, \h1D09, \h357C,
                              \hE045, \hEAF0, \h54AC, \h8C1C, \hF4EC, \h7648, \hFFD4, \hCE1F>>)],
      [y_plus_x |-> from_be_hex(<<\h02B4, \hD5E2, \h4294, \h0964, \h028D, \h10DD, \hD54F, \h9567,
                                  \h94FE, \h7126, \h000B, \hF47B, \h1951, \h3D8B, \h6C95, \h1364>>),
       y_minus_x |-> from_be_hex(<<\h3260, \h55CF, \h5B27, \h6BC2, \hB02C, \h2EE2, \h603D, \hEA33,
                                   \hA09E, \hD07D, \hC17A, \h359D, \hE55B, \h1E19, \h88BB, \h79BB>>),
       xy2d |-> from_be_hex(<<\h27A6, \hC809, \hAE5D, \h3410, \hC49C, \hF493, \h6C82, \h4389,
                              \hEACC, \h4646, \h186C, \hE508, \hB4A1, \h55CB, \h28D1, \h8DF2>>)],
      [y_plus_x |-> from_be_hex(<<\h2215, \h0360, \h3D8C, \h2599, \h79FA, \h5924, \h69D7, \h036C,
                                  \hDD4A, \h3E57, \h6A66, \hCAB2, \hCD2C, \h270A, \hC43D, \h6954>>),
       y_minus_x |-> from_be_hex(<<\h2CB6, \h7174, \hFF60, \hA17E, \hF22E, \hDFA3, \h15F5, \h585A,
                                   \h37D3, \hD73A, \h675A, \h5BE8, \h8BA6, \hEBCD, \h1F0D, \hB188>>),
       xy2d |-> from_be_hex(<<\h7B1D, \hF4B7, \h3890, \hF436, \h8289, \h1C66, \h7A94, \hF0F4,
                              \hA942, \h2044, \h728C, \hE3F1, \h59EE, \hCDF9, \h390B, \hE1D0>>)],
      [y_plus_x |-> from_be_hex(<<\h6869, \h8245, \hD352, \hE03D, \hB2AA, \hA88D, \h1FB6, \hA630,
                                  \hE355, \h5C9F, \hD494, \h09D4, \h5F2E, \h2218, \h07F8, \hF58C>>),
       y_minus_x |-> from_be_hex(<<\h61FC, \hEF26, \h58FC, \h5992, \h15EB, \h8FE2, \h0D7F, \h7B0E,
                                   \h7C6C, \h9E06, \h2B55, \h1160, \hE492, \hF2E0, \hB3B2, \hA224>>),
       xy2d |-> from_be_hex(<<\h46CF, \h4C47, \h3DAF, \h01CF, \h44BA, \hE281, \h0FF6, \hC482,
                              \hF3E4, \hAAD3, \h86DD, \hACD7, \hDBB1, \h5D85, \h2A18, \h187A>>)],
      [y_plus_x |-> from_be_hex(<<\h1065, \hAAE5, \h0D8C, \hC5BB, \h2488, \hC38C, \h5629, \hCEBA,
                                  \h7C1E, \h7EF8, \h392B, \h4854, \h213C, \h6EA7, \hF149, \h8140>>),
       y_minus_x |-> from_be_hex(<<\h2938, \h7BCD, \h14EB, \h5F40, \h72B1, \hA7F2, \hCBE5, \hCADC,
                                   \h0E5E, \hDA01, \h1690, \h3303, \h4265, \h25ED, \h9EC4, \hE5F9>>),
       xy2d |-> from_be_hex(<<\h69A1, \h98E6, \h4F1C, \hE716, \h0A07, \hE7B1, \hE183, \h4030,
                              \h5C3B, \h2DD6, \hBFCA, \h674A, \h1C2C, \h4525, \hDF20, \h0D57>>)]>>,
    \* LookupTable 13
    <<
      [y_plus_x |-> from_be_hex(<<\h25B2, \h697B, \hD267, \hF9E4, \h7001, \h9576, \hED86, \hA0E7,
                                  \h47ED, \h5D96, \h3C84, \hFB33, \hE101, \h4434, \hDCC5, \hCAED>>),
       y_minus_x |-> from_be_hex(<<\h7369, \hE6A9, \h2493, \hA1BF, \h9DF5, \h4A66, \h4050, \h70B8,
                                   \h47C9, \h889C, \hC850, \h9667, \h9062, \hB2E0, \hD91A, \h78BC>>),
       xy2d |-> from_be_hex(<<\h1420, \h683D, \hB54E, \h4CD2, \hE04E, \hCC3B, \hDF27, \h3B5E,
                              \h3CA5, \hFBD9, \h415D, \hC7B8, \h9D67, \h3FFB, \h1398, \h6864>>)],
      [y_plus_x |-> from_be_hex(<<\h31E8, \h3B41, \h61D0, \h81C1, \hD3B0, \hDA49, \hA66B, \hDE53,
                                  \h6A1B, \h0CE9, \h9646, \hAC8B, \h34EE, \hBB6F, \hC1CC, \h5AD0>>),
       y_minus_x |-> from_be_hex(<<\h60B6, \h3BEB, \hF508, \hA72D, \hFB02, \hD32F, \hCCBA, \hAC5C,
                                   \h620C, \h3500, \h5E58, \hC102, \hB478, \hBD1E, \h249D, \hD197>>),
       xy2d |-> from_be_hex(<<\h55CF, \h1EB6, \h2D55, \h0317, \h5BEC, \hE14B, \h6F18, \h683F,
                              \h49E4, \h8F4F, \h2932, \h0AD8, \h97E8, \hC712, \h9E06, \h2B4F>>)],
      [y_plus_x |-> from_be_hex(<<\h1A56, \hFBAA, \h62BA, \h0133, \hBD83, \h1CE3, \h4913, \hEE20,
                                  \hD73A, \hB9DD, \hE799, \hCC36, \h3076, \hB5E3, \h7DF5, \h8C52>>),
       y_minus_x |-> from_be_hex(<<\h669A, \h6564, \h5708, \h91D4, \hE240, \h2FA9, \h12C5, \h5FA7,
                                   \h8B9D, \h086D, \h5094, \h819C, \h5879, \h1010, \h65C2, \h3D58>>),
       xy2d |-> from_be_hex(<<\h13C4, \h8367, \h99C5, \h8A5C, \h9873, \hAE56, \h4134, \h7651,
                              \h3025, \h57BB, \hA77C, \h371A, \h943E, \h6B50, \h5C9D, \hC9EC>>)],
      [y_plus_x |-> from_be_hex(<<\h50BD, \hC87D, \hC8E5, \hB827, \hD4B2, \hE883, \hB8E5, \h5365,
                                  \hDEEB, \hC4EC, \h571A, \h4842, \hC4DC, \hFB6A, \h5D8B, \hD080>>),
       y_minus_x |-> from_be_hex(<<\h66F8, \h0C93, \hA637, \hB607, \h19F8, \h3664, \hECB5, \hB9B6,
                                   \hFC13, \hC187, \hC7F1, \h3F61, \h423A, \h5D46, \h5AB3, \hE1B9>>),
       xy2d |-> from_be_hex(<<\h1DD5, \h6444, \h725F, \hD5AE, \h64B0, \h3AC3, \h25B7, \h3B96,
                              \h3235, \h3E15, \hF011, \hABD9, \h606D, \h3783, \h6EDF, \hE111>>)],
      [y_plus_x |-> from_be_hex(<<\h3A3A, \h450F, \h63A3, \h05CD, \hF3E3, \h8BE1, \h9FE7, \h977C,
                                  \h7D4C, \hEA11, \hEAE1, \hC3E0, \hC297, \hE600, \h08BA, \hC89A>>),
       y_minus_x |-> from_be_hex(<<\h0E64, \h5912, \h219F, \h732E, \h6E71, \h4543, \h4922, \h0C8B,
                                   \hBC9F, \h6AC4, \h71CD, \h7C15, \h8FA4, \h7FF8, \h3362, \h127D>>),
       xy2d |-> from_be_hex(<<\h318C, \h8D93, \h93A9, \hA87B, \hD1E3, \h6C6D, \h1799, \h6F80,
                              \h389D, \h3183, \hDE94, \hA510, \h078F, \h2F31, \hD839, \h4627>>)],
      [y_plus_x |-> from_be_hex(<<\h509A, \h41C3, \h2595, \h0AF6, \h5585, \h1DFD, \hF359, \h73CD,
                                  \hFC92, \h1658, \h342D, \h9E3B, \h5D66, \h9E29, \hAB1D, \hD398>>),
       y_minus_x |-> from_be_hex(<<\h224C, \h7C67, \h9A1D, \h5314, \hBC98, \hD3E3, \hBA85, \h98EF,
                                   \h0C9F, \h3C49, \h7F24, \hDB66, \hF274, \h5D03, \h2AFF, \hFE19>>),
       xy2d |-> from_be_hex(<<\h05BF, \hF023, \h28A1, \h1389, \h82EC, \h1280, \h9D83, \h3E89,
                              \h793E, \hF3F4, \h641B, \h1F33, \hBDC0, \h6EDC, \hA6F9, \h25E9>>)],
      [y_plus_x |-> from_be_hex(<<\h5762, \h77CD, \hEE01, \hA3EA, \h1F74, \h8E6B, \h8F4A, \h5240,
                                  \h4FE7, \h0DC8, \h44A5, \hFAFE, \h6881, \hA0DD, \h0DC5, \h12E4>>),
       y_minus_x |-> from_be_hex(<<\h780B, \h8CC3, \hFA2A, \h44A7, \h9674, \h1049, \hD21A, \h1C88,
                                   \h544A, \hCF0A, \hD1AC, \hCF59, \h3632, \h1370, \h23CA, \hE00B>>),
       xy2d |-> from_be_hex(<<\h5FF4, \h1872, \h6271, \hB7A1, \h5E82, \hA514, \h34E6, \h2A0D,
                              \h9A57, \h7FBD, \h1405, \hDE08, \h1EF3, \h8ABC, \h234F, \h305F>>)],
      [y_plus_x |-> from_be_hex(<<\h29D4, \hDB8C, \hA0A0, \hCB69, \hAC1F, \h26E9, \h3878, \h1276,
                                  \hF35D, \h2A3B, \h4326, \h10E1, \hE5DB, \h47E8, \h13B6, \h9540>>),
       y_minus_x |-> from_be_hex(<<\h106A, \h03DC, \h25A9, \h66BE, \hFA98, \h894C, \h06BD, \h035D,
                                   \hA760, \h2025, \hF3E7, \h78F5, \h398E, \h080C, \h1789, \hDB9D>>),
       xy2d |-> from_be_hex(<<\h4AB3, \h8A51, \h052C, \hBEFA, \h3C57, \h658A, \hC888, \hF7F0,
                              \h3866, \h9DA5, \hACD3, \h09E5, \hD9AD, \h0AAF, \h3333, \h53D0>>)]>>,
    \* LookupTable 14
    <<
      [y_plus_x |-> from_be_hex(<<\h3041, \hC6BB, \h04ED, \h2B9B, \h25D5, \h6B5D, \h2016, \h34C2,
                                  \hE82B, \h3EFD, \hF757, \h5DCE, \hD6CF, \hD1EF, \h5FDD, \hC09C>>),
       y_minus_x |-> from_be_hex(<<\h29CD, \hD1AD, \hC088, \hA690, \hF1A8, \h0BD5, \hCA0A, \hCE1D,
                                   \h98C1, \hC057, \h4422, \hCA13, \hDA7C, \h2B25, \h6768, \hD593>>),
       xy2d |-> from_be_hex(<<\h104B, \hBD68, \h1404, \h9A7B, \h1A46, \h98BB, \h5F6C, \h025C,
                              \hADE7, \h9775, \h9F35, \h6B2E, \h0FF2, \hF2F9, \hD956, \hE148>>)],
      [y_plus_x |-> from_be_hex(<<\h204F, \h2A20, \hFB07, \h2DF5, \hB7F8, \h024C, \hDE20, \hF257,
                                  \hE92B, \hE69D, \h4CC7, \h5681, \hA95D, \h9A5F, \hD67F, \hF163>>),
       y_minus_x |-> from_be_hex(<<\h5BE8, \hCC57, \h092A, \h7149, \h44DC, \h5C43, \h04D2, \hF2DE,
                                   \h2C81, \h1DCD, \hD86F, \h3BC2, \h51F0, \hFD31, \h68F1, \hED67>>),
       xy2d |-> from_be_hex(<<\h2570, \hFB17, \hC279, \h161F, \h653C, \h3C31, \h8F6D, \h5C31,
                              \h7589, \h155A, \hBD65, \h2E30, \hC814, \h3B3D, \h30EB, \hB079>>)],
      [y_plus_x |-> from_be_hex(<<\h241C, \h5F91, \hDE01, \h8668, \h7986, \hEA2D, \h88A4, \hC935,
                                  \hC8E6, \hFBA8, \h8F90, \h50D1, \h192E, \hA955, \h0BB8, \h245A>>),
       y_minus_x |-> from_be_hex(<<\h3DCB, \h65EA, \h5303, \h0ACD, \hE8C7, \h142A, \h65B5, \h2562,
                                   \hF5F9, \h6F76, \h1CD6, \h026C, \h3EFA, \h367F, \h2CB6, \h1575>>),
       xy2d |-> from_be_hex(<<\h0842, \h0EDD, \h5FCD, \hF0E5, \h16D7, \hFCDD, \h235B, \h01D1,
                              \h8FBF, \h2CF0, \h22D9, \h733A, \h28D8, \h1729, \h40DE, \h6CAA>>)],
      [y_plus_x |-> from_be_hex(<<\h04D6, \h54F3, \h21DB, \h889C, \h5D96, \h70C7, \hEBB9, \h1521,
                                  \hB613, \h5B5A, \h276E, \h0685, \h0358, \hC34E, \h04F4, \h10CE>>),
       y_minus_x |-> from_be_hex(<<\h0D9A, \h53EF, \hBC17, \h69FD, \hE317, \h9617, \hFC39, \hE62B,
                                   \h57E1, \h18D4, \hE21A, \h3E6E, \hCDFF, \h20AB, \h8362, \hFA4A>>),
       xy2d |-> from_be_hex(<<\h4A7A, \h4F26, \h1899, \h1AD7, \h1CB6, \h0817, \h3334, \hA292,
                              \h2954, \hDEB6, \h8DA5, \hDD2D, \h5E7D, \hC116, \hDDBD, \hB5D5>>)],
      [y_plus_x |-> from_be_hex(<<\h4A96, \h3142, \h23E0, \hEE33, \hDD84, \h8564, \h8689, \h9EF2,
                                  \h93DA, \h8270, \h7181, \h47F2, \h24C3, \hB291, \hAF37, \h2A4B>>),
       y_minus_x |-> from_be_hex(<<\h11B5, \h0C4C, \hDDD3, \h1848, \hCDFC, \hF085, \h00E0, \h1112,
                                   \h3DF6, \h5F34, \h6B5C, \h1B8F, \hF4A7, \h1802, \h5FB1, \h5F95>>),
       xy2d |-> from_be_hex(<<\h4F4B, \hCE4D, \hCE6B, \hCC51, \h7733, \h48B6, \h3D02, \hB3F2,
                              \h738E, \h177E, \h9C15, \h76D9, \hA6E8, \h2744, \h08A4, \hFFD6>>)],
      [y_plus_x |-> from_be_hex(<<\h3042, \hCEE5, \h6159, \h5F37, \h48EB, \h409B, \hF26B, \h4FA6,
                                  \hE456, \h718F, \hCAEC, \h2317, \h30E2, \h616E, \hC49D, \h0B6F>>),
       y_minus_x |-> from_be_hex(<<\h73FC, \hDD14, \hB71C, \h01E6, \hD21A, \h09D7, \h1CEA, \h3CF4,
                                   \h26EA, \h7256, \h92F5, \h8A9E, \hA71F, \hCE5A, \hE224, \h2584>>),
       xy2d |-> from_be_hex(<<\h389E, \h740C, \h9A9C, \hE1D6, \h4CAE, \h7621, \h5F84, \h1A7C,
                              \h855A, \hE36D, \hBCE2, \h310A, \h427E, \h7079, \h449B, \hAC41>>)],
      [y_plus_x |-> from_be_hex(<<\h25C4, \h25E5, \hD626, \h3690, \h65FC, \h3EAB, \hA19B, \h91ED,
                                  \hE55B, \h0B32, \h2791, \h9CE1, \hC9BD, \h78F6, \h570E, \hAC28>>),
       y_minus_x |-> from_be_hex(<<\h6154, \h5379, \h465A, \h6788, \h45B3, \hF07D, \h62C6, \h381B,
                                   \h9750, \h0323, \hE348, \hD0AD, \h64FC, \hB3AE, \h34DC, \hB9CE>>),
       xy2d |-> from_be_hex(<<\h6539, \hA089, \h1548, \h4759, \h8C14, \hF626, \h4E8A, \h6C77,
                              \h3EF9, \h7627, \h8E06, \h2308, \h3F3E, \h06A6, \hF1D7, \hDE6E>>)],
      [y_plus_x |-> from_be_hex(<<\h0F65, \h320E, \hF019, \hBD90, \h48A8, \h9FD7, \h36CA, \h7169,
                                  \h19B2, \hBC3C, \h9842, \h4F8E, \hDDC4, \hDBD4, \h14BB, \h4A19>>),
       y_minus_x |-> from_be_hex(<<\h11C5, \hE4AA, \hC5CD, \h186C, \h624E, \h5CE8, \hF9B9, \h9E33,
                                   \hC150, \h5441, \h25C4, \h6845, \hE9D2, \h1F74, \hC3D2, \hF773>>),
       xy2d |-> from_be_hex(<<\h4CAB, \hC7BD, \hEC33, \h072A, \h59A8, \hAF0D, \hFAF2, \h939A,
                              \h4F3F, \hE6E3, \h163B, \h5181, \hD486, \hD1B1, \hCAFD, \hE0C6>>)]>>,
    \* LookupTable 15
    <<
      [y_plus_x |-> from_be_hex(<<\h7EE4, \h9816, \h5ACB, \h2021, \hF277, \h8BFC, \hCF65, \hCC9D,
                                  \hFE30, \hA72C, \hA140, \h4D9F, \hC08F, \h788F, \h3F78, \hD289>>),
       y_minus_x |-> from_be_hex(<<\h639B, \h93F0, \h321C, \h8582, \h17DB, \hED2A, \h764F, \hA12A,
                                   \hC748, \hC4C0, \h3AFE, \h4738, \h239E, \h9624, \h089C, \h0A2E>>),
       xy2d |-> from_be_hex(<<\h0EDF, \h493C, \h85B6, \h02A6, \hE7D2, \hAEC2, \hAE72, \hFD19,
                              \h2B2B, \h90D4, \h8090, \h7489, \h7BD5, \h08E3, \h9111, \hA1C3>>)],
      [y_plus_x |-> from_be_hex(<<\h04C0, \h0C54, \hD1DF, \hA369, \h1C8F, \hCFFA, \hCAE6, \hBEDE,
                                  \hA090, \h403F, \hF7F5, \hF835, \h6767, \hC4D2, \h8476, \h4113>>),
       y_minus_x |-> from_be_hex(<<\h403B, \h92E3, \h019D, \h4FB4, \h4FE4, \h1D74, \h22B6, \h7F07,
                                   \hEA57, \h4F0F, \hEBAD, \hE20E, \hAECC, \h8158, \h599B, \h5A68>>),
       xy2d |-> from_be_hex(<<\h355B, \hB12A, \hB261, \h76F4, \hAEE8, \hBFAD, \h04C7, \hD657,
                              \h71A0, \hF35A, \h1480, \hEFF8, \h4DC2, \h2F81, \h8B46, \h5CF8>>)],
      [y_plus_x |-> from_be_hex(<<\h7518, \hEAF8, \hE052, \hAD8E, \h6F07, \h7CBF, \h3BAE, \h3F2D,
                                  \hED90, \h039D, \hB3CE, \hAA11, \hA301, \hDAC7, \h5A8C, \h7318>>),
       y_minus_x |-> from_be_hex(<<\h0F9B, \h8132, \h182E, \hC312, \h0A6B, \hC50C, \hFA05, \hE785,
                                   \hE5BD, \h84D9, \hECA3, \hB0C3, \hA71E, \h64CC, \h7493, \hBBF4>>),
       xy2d |-> from_be_hex(<<\h47C3, \h871B, \hBB17, \h55C4, \h1815, \hA929, \hC9B1, \hD1D9,
                              \h0F2D, \h60BC, \hF438, \h3298, \hA488, \h59C4, \h1B7F, \h6C32>>)],
      [y_plus_x |-> from_be_hex(<<\h08FE, \hA02C, \hE8D4, \h8D5F, \hE537, \h54EA, \h441A, \hE8E0,
                                  \h62EC, \hC4B0, \hB3A2, \h99B0, \hFBE6, \h5D50, \hC850, \h66B0>>),
       y_minus_x |-> from_be_hex(<<\h00B8, \h9B85, \h7646, \h99DC, \hF762, \hC11A, \h47C3, \hC66B,
                                   \hF805, \hB17D, \hC98C, \h5D6E, \h5144, \h5397, \h71EC, \h4F48>>),
       xy2d |-> from_be_hex(<<\h4738, \h29A7, \h4F75, \hD537, \hB514, \hCFCD, \h5D89, \hD665,
                              \hC864, \h4520, \h4B68, \h5D23, \h824D, \hDD76, \h68DE, \hEAD0>>)],
      [y_plus_x |-> from_be_hex(<<\h6C66, \h8B4D, \h44E4, \hD390, \h1525, \h7390, \hCFE1, \h2FB4,
                                  \h64C2, \hDDCE, \hEF03, \h588F, \h23D9, \h533A, \hAD39, \h02C9>>),
       y_minus_x |-> from_be_hex(<<\h2078, \h684C, \h4833, \hC6B4, \h355E, \hEF24, \hAC47, \hEB0A,
                                   \hE63B, \hD7D8, \hB261, \h8DF0, \h82D2, \hDA75, \h4679, \hC418>>),
       xy2d |-> from_be_hex(<<\h7411, \hA605, \h4F8A, \h433F, \hA96C, \h65A7, \h8C8E, \hED7B,
                              \hF76A, \h0AB2, \h8127, \h3E97, \h3B48, \hCF21, \h7A78, \h820C>>)],
      [y_plus_x |-> from_be_hex(<<\h1EC9, \hA872, \h458C, \h398F, \h8455, \hECBA, \h1EEF, \h35F5,
                                  \h6871, \h3159, \hF392, \hA102, \h579A, \hE53D, \h18B1, \h75B4>>),
       y_minus_x |-> from_be_hex(<<\h7C13, \h6574, \hFB81, \h34FF, \hB34C, \h712C, \hDCC2, \hE488,
                                   \h044C, \hDC75, \h603A, \hF115, \h4D65, \h9D32, \hB99D, \hC86D>>),
       xy2d |-> from_be_hex(<<\h3ADD, \h88A5, \hC7CD, \h6460, \h57E7, \hCC9B, \hF195, \h7561,
                              \h9B81, \hD702, \h0BC8, \h82B4, \hB8E6, \hA4D4, \h00A2, \h509B>>)],
      [y_plus_x |-> from_be_hex(<<\h61BA, \h1131, \hA406, \hA720, \h1D2C, \hA22A, \hF2F6, \h6E3A,
                                  \h8F7E, \h3598, \h5FF6, \h59EC, \h85C2, \h98D4, \h5939, \h3046>>),
       y_minus_x |-> from_be_hex(<<\h2499, \h29FC, \hCC87, \h9E74, \h8553, \h0268, \hBEB6, \hD187,
                                   \h02DF, \hEF6C, \hF66C, \h1FBC, \hAB89, \h5770, \hB635, \hDCF2>>),
       xy2d |-> from_be_hex(<<\h5620, \h310C, \hBBD8, \hECE7, \h7BF1, \h5A3E, \h2678, \h3307,
                              \h023B, \h6B6C, \hBA7E, \hBD89, \hA3D0, \hA0F1, \h1695, \h9029>>)],
      [y_plus_x |-> from_be_hex(<<\h7EC8, \h46F3, \h658C, \hEC4D, \hA6EC, \h7311, \hABB5, \h94DD,
                                  \h40E8, \hFF67, \h6C8F, \h6193, \h6646, \hB5F4, \h77E2, \h85D6>>),
       y_minus_x |-> from_be_hex(<<\h3767, \h6A2A, \h4D9D, \h9730, \h8F6D, \h878F, \hC3F4, \h1C22,
                                   \hB9DB, \hF806, \hA512, \h22F5, \h5289, \h9343, \h4934, \hD643>>),
       xy2d |-> from_be_hex(<<\h6DAA, \hF723, \h399B, \h9DD5, \h214C, \h8FCF, \hA298, \h9FB8,
                              \h130F, \h1D77, \h6C01, \hCD13, \h9B5E, \h8F3F, \h1DA2, \h2EC7>>)]>>,
    \* LookupTable 16
    <<
      [y_plus_x |-> from_be_hex(<<\h2B54, \h49E5, \h8EB3, \hBBAA, \h2B1E, \h583B, \h0810, \hC5DB,
                                  \h29B7, \h43E8, \h148B, \hE884, \h583B, \h04BF, \hACAD, \h8EA2>>),
       y_minus_x |-> from_be_hex(<<\h1304, \hE9E7, \h1627, \hD551, \h00C3, \hE531, \h4574, \h7299,
                                   \hF7EA, \h3854, \h8EBD, \hA0B8, \h5F3A, \h7562, \hEB3D, \hBE47>>),
       xy2d |-> from_be_hex(<<\h4468, \hDE2D, \h7C2D, \hD693, \hDA0F, \hE1FF, \hF979, \hC60A,
                              \h3C1B, \hAB3F, \h8B48, \hDD0B, \h7898, \h14D2, \h6ADC, \h9CFE>>)],
      [y_plus_x |-> from_be_hex(<<\h5DA6, \h427E, \h6324, \h7352, \hD4A8, \h66C5, \h657A, \h772C,
                                  \h2111, \h3531, \h435D, \h0C28, \h4B9A, \hD8C6, \hF863, \h07CE>>),
       y_minus_x |-> from_be_hex(<<\h6CCE, \h7C6F, \hFB44, \hBD63, \h93A5, \hB6D6, \h447F, \h9962,
                                   \h33E6, \hDC4C, \h23DD, \hC754, \h51BB, \h355E, \h9419, \h469E>>),
       xy2d |-> from_be_hex(<<\h58F2, \h9ABF, \hE79F, \h2CA8, \h88AD, \h8C38, \h8D59, \h580F,
                              \hB906, \h6EF7, \hBBAE, \h1FF8, \h1A94, \hC688, \hDEAC, \h22CA>>)],
      [y_plus_x |-> from_be_hex(<<\h6AF9, \h3724, \h185B, \h4870, \h3643, \hD056, \hD50B, \h3AB9,
                                  \hB14C, \hE538, \h462C, \h293C, \h4B5A, \h64BF, \h710E, \hCDF6>>),
       y_minus_x |-> from_be_hex(<<\h5776, \h29C4, \hA7F4, \h1E36, \hF049, \h5B0B, \hBE01, \h5982,
                                   \h5403, \h6F9F, \h377E, \h76A5, \hE90E, \hCFAB, \h8DE7, \h3E68>>),
       xy2d |-> from_be_hex(<<\h701F, \h25BB, \h0CAE, \hC18F, \h83E2, \h3623, \h3C33, \h289F,
                              \hD2E0, \h3613, \h4B55, \h8973, \h3220, \h0245, \h09C6, \hA888>>)],
      [y_plus_x |-> from_be_hex(<<\h720A, \h5BC0, \h5095, \h5E51, \h20F5, \hB522, \hAC4E, \h60D6,
                                  \h844A, \h06E6, \h74BF, \hDBE4, \h9D18, \hF6D9, \h7CBE, \hC113>>),
       y_minus_x |-> from_be_hex(<<\h2E0C, \h92BF, \hBDC4, \h0BE9, \h61E3, \h061F, \hF4BC, \hA59C,
                                   \hF700, \h660E, \h9E25, \hA87D, \hC3A8, \hB0F8, \hE461, \h6CED>>),
       xy2d |-> from_be_hex(<<\h0E9B, \h9CBB, \h144E, \hF0EC, \h6914, \h17F3, \h5C22, \h9346,
                              \hE84E, \h8B37, \h6242, \hABFC, \h0C3F, \h0943, \h9B80, \h5A35>>)],
      [y_plus_x |-> from_be_hex(<<\h366D, \h4419, \h1CFD, \h3CDE, \h44A8, \hF1BF, \h1C68, \hD791,
                                  \hC9C3, \hAB37, \h0A72, \h3FB9, \h8DEE, \h9BD5, \h5DB1, \hBEEE>>),
       y_minus_x |-> from_be_hex(<<\h2211, \h04EB, \h3F33, \h7BD8, \hD481, \h3152, \h6355, \h43BF,
                                   \hEE81, \h916B, \hDBF9, \h0D0E, \hFBBA, \hD48F, \hFB57, \h20AD>>),
       xy2d |-> from_be_hex(<<\h4167, \hA4E6, \hBC59, \h3244, \hCCB8, \h2F0E, \h68A7, \hFB97,
                              \h2EDA, \h26FC, \hB585, \h6C3B, \h9E3C, \h1743, \hF2BC, \h8C14>>)],
      [y_plus_x |-> from_be_hex(<<\h34B3, \h3370, \hCB7E, \hD2F6, \hF12E, \h6E7E, \h2F36, \h4EEE,
                                  \hE967, \hFF14, \hE880, \hD62C, \hC2BE, \h2665, \hF8CE, \h8FEE>>),
       y_minus_x |-> from_be_hex(<<\h7938, \hBB7E, \h2255, \h246A, \h1B4B, \h4303, \h21FC, \h0684,
                                   \h5D1D, \h9D40, \h0E76, \h68EB, \h643B, \h9D28, \h76F6, \h2700>>),
       xy2d |-> from_be_hex(<<\h1176, \hFC6E, \h2DFE, \h65E4, \hED74, \h85C1, \h5880, \h8883,
                              \hCE02, \h109C, \hED85, \hA753, \hCDC5, \h91EE, \h8681, \hD6CC>>)],
      [y_plus_x |-> from_be_hex(<<\h1F6A, \h3E54, \hF269, \h06B6, \h2135, \h4FFE, \hDED7, \h879B,
                                  \h98FB, \hCC2A, \hACF4, \h40A3, \hDB90, \hE289, \h4977, \h0EB8>>),
       y_minus_x |-> from_be_hex(<<\h08FC, \h3A4C, \h677D, \h5F34, \h3D4F, \hA502, \hEBE9, \h4DC4,
                                   \h2DDF, \hC9F4, \hB2A5, \h8480, \hB4AF, \h6CD0, \h5B9C, \h619B>>),
       xy2d |-> from_be_hex(<<\h4F2F, \hAD01, \h16B9, \h00D1, \hE233, \h3E23, \hF759, \h8295,
                              \h40C0, \h85B6, \h3116, \h5CD6, \h60A4, \hC199, \hD307, \h34EA>>)],
      [y_plus_x |-> from_be_hex(<<\h3451, \h995F, \h2944, \hEE81, \h6F61, \h9B39, \hF3B6, \h1689,
                                  \hE605, \h77AA, \hFC12, \h9C08, \h962C, \hD91D, \hB73B, \hB638>>),
       y_minus_x |-> from_be_hex(<<\h4454, \h84A4, \h972E, \hF7AB, \hA61E, \h6B2D, \h368D, \h0498,
                                   \h5F54, \h1C51, \h1857, \hEF6C, \h44BE, \hB241, \h94AE, \h4E54>>),
       xy2d |-> from_be_hex(<<\h10B8, \h9CA6, \h0428, \h93B7, \h258E, \h9AAA, \h4728, \h5C40,
                              \h4A81, \h6C94, \hB093, \h5CF6, \h9152, \hFCD0, \h9FEA, \h7D7C>>)]>>,
    \* LookupTable 17
    <<
      [y_plus_x |-> from_be_hex(<<\h17D2, \hD1D9, \hEF0D, \h4DA9, \h1177, \h6B9C, \h72FF, \h51B6,
                                  \hD07C, \hAEED, \h6D9C, \h5F65, \h7539, \h41BE, \h5A45, \hF06E>>),
       y_minus_x |-> from_be_hex(<<\h20B8, \h78D5, \h77B7, \h518E, \h0262, \hBFCB, \h14C3, \hEF15,
                                   \h12EB, \hF8C5, \h2453, \h3F26, \h3D59, \h4749, \h9718, \h289C>>),
       xy2d |-> from_be_hex(<<\h7221, \h4F63, \hCC65, \hC6A7, \h22E3, \hB72C, \h3CA6, \h0022,
                              \hFD3F, \hE519, \hD752, \h1069, \h27F2, \hAF18, \h073F, \h3E6A>>)],
      [y_plus_x |-> from_be_hex(<<\h1F24, \hAC85, \h5A15, \h45B0, \hF2C0, \h72BD, \h312F, \h9DC4,
                                  \hD605, \h824A, \h4F51, \h8F75, \h1D9D, \hB7B9, \hF43B, \h29C9>>),
       y_minus_x |-> from_be_hex(<<\h5FDF, \h48C5, \h8171, \hCBC9, \hD6FB, \hD0A7, \h7376, \h1099,
                                   \hABA7, \h14D7, \h2F33, \h6795, \hB4E3, \h7F40, \h5307, \hA693>>),
       xy2d |-> from_be_hex(<<\h00BA, \h739E, \h2AE3, \h95E6, \hC7FF, \hE45C, \h06FB, \h25A2,
                              \h4748, \hC1D1, \h0C14, \h20EE, \h24D6, \h0832, \h8E95, \h05AA>>)],
      [y_plus_x |-> from_be_hex(<<\h7229, \h7DE7, \hD518, \hD226, \h5C9F, \h030C, \h2669, \h4E50,
                                  \h3606, \h79D9, \h8497, \h3BFB, \hAE44, \h26F5, \hEA88, \hBB26>>),
       y_minus_x |-> from_be_hex(<<\h0328, \h3A3E, \h67AD, \h78F3, \h115A, \h3B60, \hF9B4, \h9922,
                                   \hE5BF, \hB7D3, \h45C2, \hA2DF, \h592E, \h98DE, \h5C87, \h90D6>>),
       xy2d |-> from_be_hex(<<\h05E1, \h2968, \h4627, \h1945, \hD3DF, \hC90D, \h0228, \h9308,
                              \h32F1, \h9B4D, \h8B63, \h3080, \h4824, \h1DC7, \hBE0C, \hB939>>)],
      [y_plus_x |-> from_be_hex(<<\h78CF, \h25D3, \h8258, \hCE4C, \h8435, \h66A6, \hF5C8, \hDF92,
                                  \hBCC8, \h0CEC, \hD030, \h81D9, \hADBF, \hBBC8, \h242C, \h4550>>),
       y_minus_x |-> from_be_hex(<<\h39C0, \h0C9C, \h1369, \h8D9B, \hB02D, \hABAE, \h93B5, \hD1E0,
                                   \hCEEF, \hC8FC, \hF12B, \hB97C, \hBA82, \hEEB3, \h2D9C, \h495A>>),
       xy2d |-> from_be_hex(<<\h006B, \h5207, \h6B3F, \hF832, \hC9A7, \h5A97, \hF04E, \hFA05,
                              \hAA85, \h1CAB, \h9C2B, \hF087, \h15AE, \h6B8E, \h3148, \h9D68>>)],
      [y_plus_x |-> from_be_hex(<<\h7DE2, \hE956, \h1A9F, \h75CE, \hD4B3, \h6BCE, \h2BF4, \hA7AB,
                                  \h3407, \hF14C, \h417A, \hBC29, \hF5CB, \h7E16, \hB9CE, \h082D>>),
       y_minus_x |-> from_be_hex(<<\h4D57, \hE344, \h3BC7, \h6122, \h57DF, \h39D3, \h7051, \h6B39,
                                   \hB681, \hDF18, \h9663, \h10E2, \h29E0, \hCFE1, \h9D95, \h781C>>),
       xy2d |-> from_be_hex(<<\h6B2A, \h90AF, \h1A60, \h29ED, \hDBC9, \hC440, \hD3EE, \h9A81,
                              \h4801, \h527F, \h5D85, \hDB99, \hDE70, \hD4F4, \hB6A5, \h5ECB>>)],
      [y_plus_x |-> from_be_hex(<<\h4658, \h12C8, \h276C, \h2109, \hC647, \hE6F2, \h4CEE, \h7333,
                                  \hD830, \h1B47, \h2FB9, \h079B, \h77EB, \hF324, \h5BB2, \hD80A>>),
       y_minus_x |-> from_be_hex(<<\h5FD8, \hF4E9, \hD12D, \h3E4A, \hA764, \hAE43, \hE6ED, \hD12D,
                                   \h5735, \h281D, \hE03F, \h5FD1, \h6923, \hF4FC, \h9AE6, \h1E97>>),
       xy2d |-> from_be_hex(<<\h05B3, \h2C2B, \h1CB1, \h6790, \h180D, \h4A7B, \hDE29, \h68D7,
                              \h7065, \hFB75, \h3831, \hDC16, \h4D43, \hBEB2, \h2A10, \h62D9>>)],
      [y_plus_x |-> from_be_hex(<<\h3177, \h1A48, \h5673, \h07E1, \hB6C2, \h9D0D, \h340B, \h979D,
                                  \h3214, \h286E, \h4333, \hF3CC, \hF7FC, \hA42C, \h7AD5, \h8195>>),
       y_minus_x |-> from_be_hex(<<\h3B55, \h56A3, \h7B47, \h1E99, \hDBBE, \hEFF2, \h7DF9, \hCD61,
                                   \hA1CF, \h1AAC, \h05DF, \hEF83, \hC8C0, \h5ECC, \hD24D, \hA8FD>>),
       xy2d |-> from_be_hex(<<\h4FC0, \h79D2, \h7A73, \h36EB, \hA3D1, \h6048, \h282B, \h5AF3,
                              \hEDB3, \h5154, \h1A2B, \hA4B6, \h32B0, \hC524, \hE14D, \hD482>>)],
      [y_plus_x |-> from_be_hex(<<\h2411, \h70C2, \hBAE3, \hCD08, \h6422, \hF74D, \h643E, \h3CB9,
                                  \h1337, \hCBC9, \hCC94, \hE651, \hDC34, \h8B44, \h0C86, \hC50D>>),
       y_minus_x |-> from_be_hex(<<\h1245, \h67CE, \hCAF9, \h8E92, \hFFFF, \hC09C, \h7880, \hE453,
                                   \h2497, \hBD65, \h02DF, \hE9A7, \h51C9, \h38B0, \h89BF, \h2F7F>>),
       xy2d |-> from_be_hex(<<\h3F86, \h1296, \h6C87, \h000D, \h4AE7, \h5060, \hEBC6, \hC4AF,
                              \hF091, \h1DEE, \h0113, \hE435, \h3FF9, \hAB86, \h0AC4, \h73B4>>)]>>,
    \* LookupTable 18
    <<
      [y_plus_x |-> from_be_hex(<<\h26F5, \h7EEE, \h878A, \h19D4, \hDC9F, \h350B, \h9F92, \hD0AA,
                                  \h2915, \h9DB3, \h7389, \h9DDD, \h9C18, \hFCFA, \h3604, \h8D13>>),
       y_minus_x |-> from_be_hex(<<\h504A, \hA776, \h7973, \h613D, \h7F62, \h865B, \h31EF, \h238C,
                                   \h551D, \hCDB2, \hEA71, \h8385, \h559A, \h0CC9, \h782A, \h0DDE>>),
       xy2d |-> from_be_hex(<<\h4041, \h943D, \h9DBA, \h3069, \h85C1, \h5A34, \h4F5A, \h2467,
                              \h5180, \hD162, \h247A, \hF17B, \h0CAB, \h2CD5, \h5687, \hEFB1>>)],
      [y_plus_x |-> from_be_hex(<<\h12D9, \h3142, \h9800, \hD019, \hCB1D, \h4F7A, \h03FB, \hC9E3,
                                  \h47A6, \hB424, \h648A, \hB7CE, \h4B21, \h7743, \hA26C, \hAADD>>),
       y_minus_x |-> from_be_hex(<<\h1420, \hA1D9, \h7684, \h340F, \hD9FA, \h95EE, \h1C77, \hCCC6,
                                   \h8D74, \h9C9C, \h26EA, \h9CAF, \hC3C0, \hEEBA, \h43EB, \hCC96>>),
       xy2d |-> from_be_hex(<<\h1B4F, \h9231, \h4359, \hA012, \h4418, \h2854, \hE35F, \hF395,
                              \h5E3C, \h5140, \hB23A, \hA47B, \h00C6, \h7799, \hD337, \h594F>>)],
      [y_plus_x |-> from_be_hex(<<\h5FF1, \h91D5, \h6F9A, \h23F6, \hAB82, \hAA40, \h51DE, \hF4F6,
                                  \h251F, \h73D2, \h215F, \h4859, \h33CF, \h3030, \hA498, \h66B1>>),
       y_minus_x |-> from_be_hex(<<\h239B, \h572A, \h7F13, \h2DAE, \h20EA, \hE43F, \h975F, \h3020,
                                   \h39CE, \hFA91, \h2DE9, \h696A, \h3E5C, \h109D, \h8915, \h0951>>),
       xy2d |-> from_be_hex(<<\h020C, \h526A, \h758F, \h36CB, \hEF45, \h7280, \h5593, \hEB3D,
                              \h2883, \hAB79, \h5FC9, \h8523, \h819E, \hD433, \hAC2D, \h9068>>)],
      [y_plus_x |-> from_be_hex(<<\h452C, \hFE0A, \h5602, \hC50C, \hADC8, \hE18A, \hAEC7, \h5997,
                                  \h2C58, \h9C9D, \h8E12, \h4BB6, \hE931, \hEF59, \hF042, \hCC89>>),
       y_minus_x |-> from_be_hex(<<\h02AA, \hCC46, \h1531, \h3877, \hA952, \h4CDC, \hA3E1, \hB074,
                                   \hC8F2, \hAAF9, \hDC7C, \hA46C, \h7798, \h34F8, \h9ED8, \hDBBC>>),
       xy2d |-> from_be_hex(<<\h4CFB, \h7D7B, \h304B, \h877B, \hAB17, \hEA25, \hF1FB, \h11C9,
                              \hBBC4, \h6427, \h0E60, \h7C9F, \h86A0, \hF7A0, \h6478, \h77DF>>)],
      [y_plus_x |-> from_be_hex(<<\h5B1D, \h4CBC, \h434D, \h3AC5, \hC343, \hC857, \hECC9, \h70D0,
                                  \h2B6E, \hCD71, \hDF57, \h190D, \hE286, \h99C2, \h9789, \hEF12>>),
       y_minus_x |-> from_be_hex(<<\h14B4, \h622B, \h3907, \h5364, \hB8C3, \hAA37, \h3EE3, \h4C9F,
                                   \h54C6, \h94D9, \h9C6A, \hDC80, \h72B4, \h3D6C, \hB89B, \h75FE>>),
       xy2d |-> from_be_hex(<<\h2F98, \hF712, \h5859, \h2DD1, \h1301, \h498B, \h3369, \hA705,
                              \h3A4F, \h0E2B, \hB88D, \hCCE5, \hB6FB, \h2615, \hCC0A, \h9F26>>)],
      [y_plus_x |-> from_be_hex(<<\h1D80, \h62E9, \hE761, \h4554, \hCEBF, \h890D, \h7583, \h5DE0,
                                  \hFCFE, \h3EF0, \hA9CB, \hD7DE, \h2E12, \hAE44, \h4F54, \hA701>>),
       y_minus_x |-> from_be_hex(<<\h3A6A, \hE249, \hD806, \hAAF9, \h9A2A, \hCC21, \h8230, \h0F67,
                                   \h5B1F, \hF4A9, \h8E8E, \h1320, \h0C94, \hA74C, \hB50F, \h9E56>>),
       xy2d |-> from_be_hex(<<\h298B, \h8CE8, \hAEF2, \h5FF3, \h8D0E, \h1DFB, \hDF34, \hB4E9,
                              \h1A0E, \hA8B5, \h91B9, \h0F62, \h657A, \hDA85, \hA990, \h7C5A>>)],
      [y_plus_x |-> from_be_hex(<<\h6BA6, \h2718, \h03A7, \hD7DC, \h5216, \h36C7, \h7738, \hAE70,
                                  \h3FAB, \h07B4, \h0BCF, \h79F6, \h837A, \h72EA, \h0A21, \h65DE>>),
       y_minus_x |-> from_be_hex(<<\h34B8, \hA840, \h4D5C, \hE485, \h9418, \h457A, \h30A7, \hCF6A,
                                   \h4B89, \hC92A, \h7915, \h7076, \h2A92, \h7953, \hEFF7, \h0CB2>>),
       xy2d |-> from_be_hex(<<\h71D6, \h2BDD, \h465E, \h1C6A, \hA293, \hAA9A, \hA4B2, \h2573,
                              \hD5A8, \h13DF, \h63B5, \hFEFD, \hC26E, \hECB5, \h8369, \h3335>>)],
      [y_plus_x |-> from_be_hex(<<\h1C33, \h3621, \h262B, \h2B3D, \h1457, \h1FEA, \h3F49, \hF085,
                                  \hD77F, \h95CF, \h16B0, \h65F5, \hCD2D, \hB5DA, \hB1F7, \h5EF5>>),
       y_minus_x |-> from_be_hex(<<\h74D5, \hF317, \hF317, \h2BA4, \hE364, \h5FF9, \hF701, \hDA5A,
                                   \hF6DB, \h4379, \h0A0F, \hA4B4, \h6533, \hCC28, \hD378, \hDF80>>),
       xy2d |-> from_be_hex(<<\h4AEB, \hCC45, \h47E9, \hD98C, \hDA6D, \h0892, \hE3AC, \h623B,
                              \h398B, \h7C75, \h2B29, \h8C37, \hA86F, \hE554, \h67D9, \hCA81>>)]>>,
    \* LookupTable 19
    <<
      [y_plus_x |-> from_be_hex(<<\h173B, \hD9DD, \hC9A1, \hDF2C, \hDBE6, \h3A03, \h4A58, \hA207,
                                  \h806B, \h3253, \h5BA8, \h5B6E, \h0B40, \h8D9E, \h7354, \hB610>>),
       y_minus_x |-> from_be_hex(<<\h5D88, \hFBF9, \h5A3D, \hB792, \h5308, \h129B, \h71D6, \hFBA9,
                                   \hE7B8, \hBAC5, \h86C4, \h8C70, \h12F0, \h071B, \h276D, \h01C9>>),
       xy2d |-> from_be_hex(<<\h06E1, \hCD13, \hB19E, \hA319, \hE6ED, \h278E, \hC967, \h3AE0,
                              \h58D6, \h582E, \hD439, \h18C1, \h2B50, \h0F1E, \hFE58, \h72DF>>)],
      [y_plus_x |-> from_be_hex(<<\h7F3A, \h6A1A, \h8D83, \h7B13, \h0C78, \h5F46, \h9643, \hBF27,
                                  \h3BAA, \h0B90, \h278D, \h0447, \h472B, \hAF62, \h9E5B, \h0353>>),
       y_minus_x |-> from_be_hex(<<\h3080, \h6035, \h26E1, \h6266, \h3FE3, \h5E14, \hA04D, \h088E,
                                   \h118E, \h3293, \h1FAB, \h6ABE, \h40D0, \hAD51, \h6F16, \h6F23>>),
       xy2d |-> from_be_hex(<<\h30D0, \hFDED, \h2E51, \h307E, \h68CD, \h7830, \h592C, \h6339,
                              \h95A8, \hD555, \hC901, \hEDF6, \hF7E6, \h4439, \h5D3D, \h800B>>)],
      [y_plus_x |-> from_be_hex(<<\h4615, \h0843, \h51C5, \h89D9, \h5C8D, \hE726, \h72FA, \h412B,
                                  \hA095, \h7229, \h6664, \hBBCF, \h9CB4, \h971E, \h68B8, \h4750>>),
       y_minus_x |-> from_be_hex(<<\h0A92, \h1420, \h2C09, \h9868, \h6965, \h187F, \h8F49, \h9A77,
                                   \h1BDB, \hE78E, \hF0CC, \h4D9C, \hE059, \h4D1A, \hF212, \h33B3>>),
       xy2d |-> from_be_hex(<<\h3BCA, \h0D28, \h95CA, \h5DFE, \h0E6D, \hF501, \h6599, \h32EC,
                              \h55C7, \h110D, \h1603, \h4CAE, \hBC90, \h19C0, \hAEB9, \hA02E>>)],
      [y_plus_x |-> from_be_hex(<<\h4EA8, \hB403, \h8DF2, \h8241, \hCA2D, \h955F, \h5F7A, \h9FE2,
                                  \hF0BC, \h83AD, \hA644, \h896F, \h9C68, \h8EB6, \h9ECC, \h01BF>>),
       y_minus_x |-> from_be_hex(<<\h5631, \hDEDD, \hAE8F, \h13CD, \h9818, \h3DA2, \h130F, \hB545,
                                   \h19FC, \h8B3E, \hCFF0, \h7A60, \h40F0, \h31BC, \h3C5D, \h62A4>>),
       xy2d |-> from_be_hex(<<\h24CE, \h0930, \h542C, \hA463, \h9121, \h7745, \h49F1, \h1A5F,
                              \h4630, \h5305, \hA48C, \hEE83, \h2AED, \h460A, \hF1CA, \hD202>>)],
      [y_plus_x |-> from_be_hex(<<\h5499, \h28A7, \h324F, \h4280, \hB2E0, \h64DE, \h6492, \hF844,
                                  \hD2F7, \h168E, \h3637, \h2EA4, \h3FCF, \hA155, \hFDF3, \h0B85>>),
       y_minus_x |-> from_be_hex(<<\h41D4, \hE3C2, \h8A06, \hD74B, \h8278, \h08FE, \h6E8C, \hAF3E,
                                   \hB5C4, \h6835, \h5D88, \h10F2, \h1FE8, \h90F5, \hFD06, \hC106>>),
       xy2d |-> from_be_hex(<<\h491B, \h66DE, \hC0DC, \hFF6A, \hBC3B, \hD33B, \hD17F, \h4D69,
                              \hAE91, \hE4B7, \hD25F, \hFDEA, \hF26E, \h32A7, \h63EE, \h1A2E>>)],
      [y_plus_x |-> from_be_hex(<<\h4CF6, \hB8B0, \hB701, \h8B67, \h8234, \hA379, \h1F7B, \h7BA4,
                                  \hED22, \h2CAF, \h67E2, \h284B, \h75F0, \h4A8E, \hD0DA, \h64A1>>),
       y_minus_x |-> from_be_hex(<<\h08F3, \h38D0, \hC85E, \hE4AC, \hAC0A, \hBF52, \hCBF8, \hD947,
                                   \hE3D5, \hF8CC, \h7E16, \hDB98, \h98F5, \hB13D, \hC7EA, \h32A7>>),
       xy2d |-> from_be_hex(<<\h530D, \h4A82, \hEB07, \h8A99, \hC13D, \h331B, \h8477, \h7063,
                              \hAB27, \hBC01, \hDF32, \h0C7A, \hC383, \hA821, \h991A, \h73BD>>)],
      [y_plus_x |-> from_be_hex(<<\h0DB3, \hE7E0, \h0CBF, \hBD5B, \h2BAC, \hF412, \hC8CF, \hB850,
                                  \h257F, \hB2FC, \h4900, \hA880, \h6D69, \h7345, \h6C9A, \hBF9E>>),
       y_minus_x |-> from_be_hex(<<\h65EA, \h753F, \h1017, \h70B9, \hC748, \h2323, \hCC84, \hFF8B,
                                   \h7E2D, \h7826, \h8CAB, \h535A, \h004C, \h3630, \hE1F9, \h4825>>),
       xy2d |-> from_be_hex(<<\h02A4, \hEC19, \h21E1, \hA1DB, \h0FBE, \h0442, \h1344, \h3B1A,
                              \h81D6, \h2C7F, \h61B5, \hCB6B, \h3D66, \hFC3E, \hE209, \h6363>>)],
      [y_plus_x |-> from_be_hex(<<\h36D1, \h2B5D, \hEC06, \h7FCF, \h1721, \h2485, \h1C06, \h3578,
                                  \h118C, \h8619, \h26EE, \h57F2, \hF5C8, \h6162, \hF1CF, \h795F>>),
       y_minus_x |-> from_be_hex(<<\h3D14, \h3C51, \h1278, \h09BF, \hCCCB, \hE6E8, \h8BA0, \h7037,
                                   \hB857, \h7ACC, \h45AF, \hA0B8, \h5CE6, \h259A, \h3B24, \hB8A2>>),
       xy2d |-> from_be_hex(<<\h2EF5, \h1788, \h5BA8, \h2859, \h36BD, \hB6E8, \hDF17, \h9BAC,
                              \hD5E4, \h8F5C, \hFC78, \h3A0A, \h126D, \h2791, \h7915, \h4557>>)]>>,
    \* LookupTable 20
    <<
      [y_plus_x |-> from_be_hex(<<\h5796, \h8290, \hBB3A, \h0095, \hF0F5, \h2DC7, \h46D5, \hDD25,
                                  \hD3F9, \h38AD, \h8895, \h96B8, \h96EE, \hBFFB, \h305B, \h2F51>>),
       y_minus_x |-> from_be_hex(<<\h2F1B, \h78FA, \hB143, \hA8A6, \hE185, \hD956, \hE980, \h718A,
                                   \hB9EF, \h22FB, \hABF0, \h41A4, \h4637, \h974E, \h8C58, \hAEDC>>),
       xy2d |-> from_be_hex(<<\h7DC4, \h3E35, \hDC2A, \hA3E1, \hCF75, \h09A8, \h6EE2, \hEED1,
                              \hF393, \h658D, \h24F0, \hEC47, \hF71A, \hB843, \h0A20, \hE101>>)],
      [y_plus_x |-> from_be_hex(<<\h044F, \hB81D, \h82D5, \h0A99, \h0F2E, \hD805, \h1F23, \h7D3E,
                                  \h3576, \hC699, \h5E4E, \hFD94, \h5A78, \h2A5C, \h273E, \h9718>>),
       y_minus_x |-> from_be_hex(<<\h7EF7, \h2016, \h758C, \hC12F, \hC6E0, \h8DF8, \hEF20, \h79B1,
                                   \hC90F, \h9B31, \h4BB0, \h5355, \h8596, \h6665, \h887D, \hD9C3>>),
       xy2d |-> from_be_hex(<<\h7F79, \h823F, \h9C30, \hDD2E, \hCA70, \h4534, \hB201, \hBB49,
                              \h57B3, \h371D, \hCE4C, \h6359, \hC1DF, \h18C5, \hA907, \hE3D9>>)],
      [y_plus_x |-> from_be_hex(<<\h64A9, \hB043, \h1C06, \hD6F0, \h3CBF, \h9955, \h7DED, \h5BE7,
                                  \h0827, \h894E, \h0050, \hC8DE, \h6A9C, \h1FF0, \h68F5, \h87BA>>),
       y_minus_x |-> from_be_hex(<<\h0A4E, \h0373, \hD784, \hD9B4, \h12B5, \h4136, \hF590, \hBD33,
                                   \hC136, \h70D4, \hB91F, \hA8D8, \h8334, \hD239, \hA3B5, \h13E8>>),
       xy2d |-> from_be_hex(<<\h071A, \h7D0A, \hCE18, \h346C, \h7156, \hCE43, \h89A4, \h5D47,
                              \hB0B4, \hF6A0, \hD53A, \h8235, \h2EB3, \hD6A1, \h5B7D, \h2919>>)],
      [y_plus_x |-> from_be_hex(<<\h7C69, \hBCF7, \h6177, \h55D3, \h9AF5, \h621B, \h209D, \h5F36,
                                  \h0D65, \h9507, \h09B1, \h5141, \hCC0C, \h3552, \h20E1, \h4431>>),
       y_minus_x |-> from_be_hex(<<\h2C3B, \hCC71, \h46EA, \h7E9C, \hCF54, \h3002, \hC0EF, \h768B,
                                   \h0126, \h2905, \hBFA5, \h62EE, \hD307, \h2DAA, \hC887, \hBA0B>>),
       xy2d |-> from_be_hex(<<\h6F5A, \h9A73, \h22AC, \hA51D, \hE951, \hA9A3, \h1717, \h98D7,
                              \h10DB, \h1825, \h2F50, \hF37D, \h07F0, \hD7EB, \h04E8, \h295F>>)],
      [y_plus_x |-> from_be_hex(<<\h02AB, \h9680, \hEE8D, \h3B24, \h4525, \h567A, \h4786, \h9C03,
                                  \h8D9E, \h0940, \h8078, \hAF9E, \hE729, \hD4EB, \hA3D9, \h44BE>>),
       y_minus_x |-> from_be_hex(<<\h494E, \h21A2, \hE147, \hAFCA, \h4EFA, \h4770, \h3CC5, \h1C9F,
                                   \hC49F, \h79C1, \h0CFE, \hFB9B, \h8BA1, \h000C, \h2F41, \hC6C5>>),
       xy2d |-> from_be_hex(<<\h6B5D, \h76CB, \hEA46, \hBB34, \hFA09, \h1F1D, \hD91E, \hF6D9,
                              \h219A, \h224E, \h0FB9, \hA249, \hEFA4, \h8A85, \hDDE5, \h0D9A>>)],
      [y_plus_x |-> from_be_hex(<<\h16FB, \h869C, \h03DD, \h313E, \h408B, \h3EA2, \hD0FC, \hC746,
                                  \hF1E6, \hAE74, \h0369, \h36D3, \hE0F9, \h4117, \h1E78, \h2522>>),
       y_minus_x |-> from_be_hex(<<\h0AE3, \h33F6, \h8527, \h7354, \hAF01, \h6914, \h8F42, \hB477,
                                   \h6472, \hDC6F, \h5CD0, \h1DBA, \h8857, \h556C, \hEC0C, \hD994>>),
       xy2d |-> from_be_hex(<<\h3F81, \hE38B, \h8F70, \hD075, \h4811, \hF7ED, \h0991, \hD03E,
                              \h24FC, \h72B4, \hD8AB, \hE133, \h288E, \h1997, \h33B6, \h0962>>)],
      [y_plus_x |-> from_be_hex(<<\h0AD3, \hE2D3, \h4CDE, \hDC3D, \hD57C, \h3E8B, \hCBF8, \hEAF7,
                                  \h74B9, \h23C3, \hD742, \h99A4, \h0ADB, \h7F35, \h5F17, \hC824>>),
       y_minus_x |-> from_be_hex(<<\h5051, \h0FC1, \h04F5, \h0993, \hA839, \h7ED2, \h4B0C, \h4704,
                                   \h545C, \hB8A1, \h2465, \h874B, \h7F91, \h0FCC, \h7ED9, \hAFFE>>),
       xy2d |-> from_be_hex(<<\h127C, \h158B, \hF0FA, \h1EBE, \hF2D6, \hFD00, \h09EE, \hFE1C,
                              \h745E, \hDE19, \hC331, \hCFD9, \h6F0C, \h0FC5, \h336E, \h249D>>)],
      [y_plus_x |-> from_be_hex(<<\h4ED8, \h2479, \hD167, \hDF95, \h6240, \h680B, \h8738, \h48A8,
                                  \h1D99, \h73D3, \h744D, \hFE96, \hDEA2, \h8FC4, \hAE51, \hB974>>),
       y_minus_x |-> from_be_hex(<<\h354E, \hF87D, \h07EF, \h4F68, \h9B41, \h3FC1, \h4B4E, \hACCB,
                                   \hA44A, \hDDD4, \h52CA, \h3647, \hF619, \h7C42, \h2E98, \h79A2>>),
       xy2d |-> from_be_hex(<<\h302D, \h92D2, \h0539, \h236D, \h8808, \hAC30, \hA9F6, \h653C,
                              \h5035, \h2EFC, \hEB41, \hB0B8, \hFEE3, \hB522, \h60C5, \hD975>>)]>>,
    \* LookupTable 21
    <<
      [y_plus_x |-> from_be_hex(<<\h0EDC, \h5F5E, \hB426, \hD060, \h5E19, \h66D4, \h787A, \hF6E8,
                                  \h04E1, \hBF29, \hA4BD, \h6A93, \h2DBC, \h6FB6, \hE4E0, \hF177>>),
       y_minus_x |-> from_be_hex(<<\h10E5, \hD3B7, \h6F1C, \hAE4C, \hAEC7, \hBCB8, \hC268, \hFA86,
                                   \hED62, \hF091, \hA186, \h3DD9, \h7813, \hC1A2, \hBCA4, \h283D>>),
       xy2d |-> from_be_hex(<<\h45B4, \h6C51, \h361C, \hBA72, \hBF87, \h263B, \h0357, \h8A23,
                              \hE9DC, \h1EEC, \h24A9, \hF641, \h5453, \hBFD6, \h53DA, \h8E67>>)],
      [y_plus_x |-> from_be_hex(<<\h5C1C, \h0AEF, \h3212, \h29DF, \h4B59, \h4F7B, \hB30E, \h9958,
                                  \hAB13, \h6456, \h7662, \h0E30, \hCE9D, \h4DDD, \h8A7F, \hE3E4>>),
       y_minus_x |-> from_be_hex(<<\h2177, \hBFA3, \h6DCB, \h713B, \h1DBB, \hD54B, \h23A8, \hBE84,
                                   \hE257, \hF1DC, \h8E8C, \hF450, \hA940, \h2ABF, \h314F, \h7FA1>>),
       xy2d |-> from_be_hex(<<\h4AE6, \h1938, \h7D8A, \hB5BB, \h087A, \h7665, \h9C83, \h2487,
                              \h6048, \h811E, \hC25F, \h59B3, \h3708, \h1BBC, \hFA79, \hDB8F>>)],
      [y_plus_x |-> from_be_hex(<<\h7568, \h5ABE, \h5BA4, \h3D64, \h83AC, \h3448, \hD425, \h904B,
                                  \hFCE0, \h462A, \h7196, \h3136, \h6111, \h7E44, \h985B, \hFB83>>),
       y_minus_x |-> from_be_hex(<<\h1A00, \hD91B, \h17BF, \h3E03, \h5EB0, \hEB97, \h4A13, \h0D60,
                                   \h7D88, \hEAB4, \hB41B, \h4078, \h8DDB, \hF6AA, \h5344, \hA32E>>),
       xy2d |-> from_be_hex(<<\h1355, \h29B6, \h23B0, \hE6AA, \hDF72, \h7510, \h7AF6, \h6569,
                              \h543D, \h0FA8, \hC9FF, \h4952, \h6E96, \h0933, \hEB61, \hF2B2>>)],
      [y_plus_x |-> from_be_hex(<<\h5972, \hEA05, \h1590, \hA613, \hEC9D, \hA637, \h1425, \h4AAE,
                                  \hB42B, \hEB19, \hE809, \h85C1, \hF5C7, \h16BC, \hE22E, \h83FE>>),
       y_minus_x |-> from_be_hex(<<\h79B5, \hB81A, \h65CA, \h3A01, \h8732, \hE1F0, \h7114, \h759B,
                                   \h979F, \h7888, \hCFC1, \h1F11, \h18F0, \hDBD7, \hADD1, \hD518>>),
       xy2d |-> from_be_hex(<<\h4F7E, \h9C95, \h905F, \h3BDB, \hC01B, \h2D64, \hB336, \h0434,
                              \h9A9A, \hD294, \hAC4D, \h4FA8, \h0FD4, \hAC20, \hDC8F, \h7811>>)],
      [y_plus_x |-> from_be_hex(<<\h1942, \hEEC4, \hA144, \hADC8, \h8092, \h499E, \hF1A4, \h9466,
                                  \h8BCD, \h3B1C, \hDBEB, \hEAD7, \h71C8, \h443D, \h3552, \h99FE>>),
       y_minus_x |-> from_be_hex(<<\h3199, \h3AD9, \h2E63, \h8E4C, \h8C29, \h99AE, \h53FB, \hD9C6,
                                   \hD852, \h0F39, \h89AD, \hDC0F, \h6267, \h4BBC, \h5781, \h302E>>),
       xy2d |-> from_be_hex(<<\h2A0A, \h6531, \h4EF9, \hCA75, \h553C, \hE494, \h253C, \h1122,
                              \h2C1B, \h3D91, \h0CEA, \h3E92, \h7DAC, \h5319, \hAE23, \h4992>>)],
      [y_plus_x |-> from_be_hex(<<\h055D, \hC39B, \h6DEA, \h1A13, \h60E8, \h60E9, \hA8CD, \hA6AB,
                                  \h2F9E, \hBCAC, \h5A35, \hBC3B, \hCF36, \h1ACD, \h3C1C, \h793A>>),
       y_minus_x |-> from_be_hex(<<\h4CF6, \hE218, \h647C, \h2DED, \h5982, \hF3A2, \h1155, \hAF76,
                                   \hDB74, \h1F06, \h17D0, \hA635, \h2DB7, \h937F, \hF7F9, \h27C2>>),
       xy2d |-> from_be_hex(<<\h121A, \h3077, \h10AA, \h24B6, \hA83C, \h78CE, \hE4A3, \h2C89,
                              \h07E2, \h4EBC, \h774D, \hFFAB, \hB119, \h227C, \hC28D, \h5BB6>>)],
      [y_plus_x |-> from_be_hex(<<\h527B, \hB94A, \h6CED, \h3A9B, \h289E, \h2823, \h1097, \hBCD3,
                                  \h88BF, \hE077, \hB82B, \h96AF, \hD659, \h713E, \hC774, \h83C9>>),
       y_minus_x |-> from_be_hex(<<\h333F, \hC76C, \h7A40, \hE52D, \h4605, \h4691, \h9551, \hD3B1,
                                   \hE153, \hFC09, \h3034, \hBC2D, \hE4DB, \h5D5E, \h9F03, \h4A97>>),
       xy2d |-> from_be_hex(<<\h6B89, \h069B, \h20A7, \hA9F7, \h4850, \h35DE, \h2F64, \hD8E5,
                              \h3405, \hD07C, \h6E38, \h3801, \h563D, \h992A, \h995B, \h482E>>)],
      [y_plus_x |-> from_be_hex(<<\h0473, \hD308, \hA763, \h9BCF, \h29E6, \hC8D9, \hF6E7, \hA57E,
                                  \h0686, \h86F8, \hC734, \hC155, \h4082, \hFA8C, \hB5C7, \hDB77>>),
       y_minus_x |-> from_be_hex(<<\h23BC, \h2103, \hAA73, \hEB73, \hFFAD, \hC4CE, \h5072, \hEF05,
                                   \h995A, \h89FA, \hF924, \h5B4E, \h812A, \hA041, \h6270, \h220D>>),
       xy2d |-> from_be_hex(<<\h102F, \h73BF, \hDE04, \h341A, \h02A1, \hEF74, \hE601, \hA94F,
                              \h2B4B, \h4212, \h46DC, \hC492, \hCAEE, \h7926, \h0358, \h9E05>>)]>>,
    \* LookupTable 22
    <<
      [y_plus_x |-> from_be_hex(<<\h3F6B, \hD725, \hDA4E, \hA12D, \h981F, \h375D, \hF550, \h4234,
                                  \h7AC8, \h6029, \h2BFF, \hFF06, \hA2B4, \hDAE0, \hB551, \h1C9A>>),
       y_minus_x |-> from_be_hex(<<\h3659, \h7D25, \hEA5C, \h013D, \hB727, \h12DA, \h2DF7, \hAFA9,
                                   \h023A, \h8AEE, \h5787, \hC690, \hEB18, \hB9AB, \h7F57, \h45C6>>),
       xy2d |-> from_be_hex(<<\h7B7E, \hCC19, \hDA60, \hD6D0, \h6466, \hF8F9, \h9202, \h932D,
                              \hD940, \h579E, \h6FC6, \h905F, \h734D, \h8D7B, \h1060, \h58AC>>)],
      [y_plus_x |-> from_be_hex(<<\h03BE, \hDC66, \h1BF5, \hCABA, \h09BB, \hFFCD, \h8F2D, \h82DB,
                                  \h8226, \h3654, \hE7A3, \h8650, \h6DAE, \h4A51, \hA77C, \hFA9B>>),
       y_minus_x |-> from_be_hex(<<\h4235, \hAD76, \h0174, \h3956, \h951D, \h4444, \h4AE1, \h2BD2,
                                   \hDD25, \h2E66, \h0642, \h906E, \h78C2, \h373C, \h695C, \h690D>>),
       xy2d |-> from_be_hex(<<\h0E7C, \hE2B0, \hCDF0, \h66A1, \hA0CA, \hB423, \hE2E3, \h6EE4,
                              \h4929, \h4254, \h9189, \hF298, \h6258, \hCB0D, \h0789, \h75F5>>)],
      [y_plus_x |-> from_be_hex(<<\h6152, \h5613, \h8AEC, \hEEB5, \h4882, \hD47E, \h7F2F, \hAB89,
                                  \hF130, \hC051, \hC1FC, \hBA2D, \hFEA6, \hFEDF, \hD94B, \h70F9>>),
       y_minus_x |-> from_be_hex(<<\h666E, \h0A5D, \h8FB4, \h674A, \h09DB, \h17DD, \h3AE9, \h4D48,
                                   \hFD36, \h1DF4, \h3C61, \h39AD, \hC494, \h643A, \hC48C, \h85A3>>),
       xy2d |-> from_be_hex(<<\h7F0B, \hC810, \hD514, \hDEE4, \h9ABE, \h4EBA, \h75E8, \h985D,
                              \hCD65, \hBCF0, \hAA45, \h8B6B, \h2ABB, \hF64E, \h4870, \hCB0D>>)],
      [y_plus_x |-> from_be_hex(<<\h1D3A, \h907D, \hDEC5, \hAB75, \h311E, \h2EDD, \h43EC, \h6957,
                                  \h9FF6, \hF8BA, \h2EF7, \h2E98, \h83AC, \h9DAD, \h7372, \h13A0>>),
       y_minus_x |-> from_be_hex(<<\h0D1F, \h8DBC, \hF8EE, \hDBF5, \hCBC8, \hDFD9, \h4F46, \h3C28,
                                   \h8D67, \h369E, \h57E0, \h3035, \hB900, \h6BA4, \h26F4, \h136F>>),
       xy2d |-> from_be_hex(<<\h0001, \h1B44, \hA31B, \hFDE3, \h0128, \h013C, \h0303, \h21CB,
                              \h2932, \h9FAD, \h851B, \h3480, \hBA16, \h9331, \h3ED0, \h81DC>>)],
      [y_plus_x |-> from_be_hex(<<\h63D9, \h88A2, \hD285, \h1026, \h11A8, \hDD7F, \h9A79, \h66AD,
                                  \hC1BF, \h725C, \h5852, \hBD6A, \h1656, \h1F69, \h6A0A, \hA75C>>),
       y_minus_x |-> from_be_hex(<<\h3AC4, \h8D91, \h6E83, \h57E1, \h7AE3, \h8B38, \h268E, \h4D71,
                                   \h5D40, \hE38E, \h4DD6, \h0DD2, \h3FDF, \hA06C, \h3FC6, \h6C0C>>),
       xy2d |-> from_be_hex(<<\h33FA, \hD52B, \h2368, \hA066, \hF816, \h69B3, \h84E7, \h2B91,
                              \hE92B, \hCEB8, \hFDD8, \hF683, \h0012, \h0753, \hAFBD, \h232E>>)],
      [y_plus_x |-> from_be_hex(<<\h3CC3, \h55CC, \hB90A, \h71E2, \hA3FE, \hB6E6, \hECF6, \hA56F,
                                  \h072B, \h4F7B, \h05A1, \h3ACB, \h8D2C, \hC8D0, \hC422, \hCFE8>>),
       y_minus_x |-> from_be_hex(<<\h16C0, \hF429, \hA256, \hDCA7, \hB2AC, \hFCD2, \hF305, \hE746,
                                   \h0AF8, \h6430, \h333F, \h7735, \h5406, \h49C6, \hC5E4, \h1E16>>),
       xy2d |-> from_be_hex(<<\h631E, \hAF42, \h6BAE, \h7568, \hC87C, \hD1A4, \hBABA, \h9244,
                              \hB8A4, \h94CB, \h7A56, \h37CE, \hE9B6, \h9443, \h903E, \h9131>>)],
      [y_plus_x |-> from_be_hex(<<\h431F, \h2C7F, \h665F, \h80B5, \h5365, \h8F27, \h32E4, \h5DE1,
                                  \h7280, \hC5FB, \hE2F8, \h0552, \h47D9, \h75B9, \hA370, \h0DE8>>),
       y_minus_x |-> from_be_hex(<<\h5599, \h648B, \h1EA9, \h19B5, \hBC3D, \h9761, \h1EF9, \hBF83,
                                   \h85DD, \h4B52, \h6C16, \hE5A6, \hB3E9, \h0410, \hDA66, \hFE9F>>),
       xy2d |-> from_be_hex(<<\h7B04, \h715F, \h9125, \h3B26, \h8900, \h441A, \h2090, \hA9D7,
                              \h14AB, \h352F, \hA1EA, \h514A, \hD602, \h6344, \h858F, \h7B19>>)],
      [y_plus_x |-> from_be_hex(<<\h48D0, \hACFA, \h57CD, \hE223, \hB09A, \h9558, \h450B, \hF944,
                                  \h970E, \hD3DD, \h6D1D, \h9B0B, \hB376, \hC280, \hC4E6, \hBAC6>>),
       y_minus_x |-> from_be_hex(<<\h59B3, \h7BF5, \hC2F6, \h583F, \hC040, \h4769, \hB7EB, \h2C44,
                                   \h8635, \h7C8B, \h7D5C, \h7AB4, \h83ED, \hBD28, \hACF6, \hAE43>>),
       xy2d |-> from_be_hex(<<\h1623, \h4191, \h336D, \h3BDB, \h4208, \hCE7E, \hE996, \h0394,
                              \hF1D1, \hA197, \h622F, \h3A37, \hB60F, \h26E4, \h7DAB, \hE671>>)]>>,
    \* LookupTable 23
    <<
      [y_plus_x |-> from_be_hex(<<\h4A25, \h707A, \h203B, \h9231, \h51E2, \hD802, \h3DD7, \h3DC3,
                                  \h29CD, \h9BC3, \h0636, \h25A0, \hDD49, \h9CD6, \h1FF3, \h8640>>),
       y_minus_x |-> from_be_hex(<<\h2CDF, \hDFEC, \hD5D0, \h5006, \h23A0, \h153F, \hE9A4, \hF2B1,
                                   \h7772, \hCA7B, \h742C, \h0843, \hB9E4, \h99DE, \hF626, \h7FF6>>),
       xy2d |-> from_be_hex(<<\h5721, \h896D, \h248E, \h49FC, \h4000, \h144C, \h3AE2, \h0161,
                              \h3042, \h4258, \h1DD1, \h70A1, \h2AB7, \h668A, \h53F6, \hED6A>>)],
      [y_plus_x |-> from_be_hex(<<\h03C9, \h35AF, \hC4B0, \h30FD, \h63E5, \h177C, \hE193, \h93B3,
                                  \h4BAA, \h6FA7, \hB5FE, \h3E08, \h285D, \h5091, \hA1D0, \hDA4E>>),
       y_minus_x |-> from_be_hex(<<\h578E, \hDD74, \hF63C, \h13DA, \h5509, \hBCE9, \h3206, \h4625,
                                   \h9022, \h629F, \h2BB9, \h63B4, \h0B6E, \h5517, \hFD18, \h1BAE>>),
       xy2d |-> from_be_hex(<<\h3EC2, \hAB59, \h0288, \hC7A2, \hDCD2, \h9B84, \hDD62, \h3A3C,
                              \h47CC, \hC2C4, \hDFE2, \h05FC, \h9972, \h76C6, \h492B, \h0C3D>>)],
      [y_plus_x |-> from_be_hex(<<\h0E1B, \hF66C, \h6ADB, \hAC5E, \h0BAE, \hA4C6, \hE81E, \hAB29,
                                  \h0F2B, \h87DF, \h40F5, \hC2D5, \hA721, \h3A09, \hAE32, \hD1CB>>),
       y_minus_x |-> from_be_hex(<<\h2DD5, \hC25A, \h200F, \hCACE, \h99A0, \hDDD0, \h73CB, \h9B83,
                                   \hA98B, \h4DEB, \h6139, \h1AED, \hA1A0, \hD27B, \hE4D8, \h7BB9>>),
       xy2d |-> from_be_hex(<<\h7305, \h48B3, \h5AE8, \h8F5F, \hBFBA, \h69CD, \hBAAE, \h5F1E,
                              \h1A02, \h0018, \hCB92, \h6D5D, \hE2AB, \hD5E9, \h792C, \h887E>>)],
      [y_plus_x |-> from_be_hex(<<\h585A, \h2277, \hD878, \h45DD, \h423F, \h06CB, \h0622, \h702B,
                                  \hBF3E, \hF177, \h0935, \h3F19, \h805B, \h094B, \hA1D6, \hE334>>),
       y_minus_x |-> from_be_hex(<<\h3043, \h443B, \h411D, \hB8CA, \h760F, \h4F52, \hAB8C, \h3850,
                                   \h65A2, \h6F1D, \hB211, \h5F16, \hC435, \h51A3, \hCBA8, \hB8EE>>),
       xy2d |-> from_be_hex(<<\h7656, \h2789, \h50EF, \h981F, \hA78E, \h6FA5, \h373E, \h41FF,
                              \h6698, \hC4B5, \hEC78, \h257F, \hA18A, \h5F82, \h33D4, \h8962>>)],
      [y_plus_x |-> from_be_hex(<<\h28BB, \hF484, \hB613, \hF616, \h4853, \hE7FC, \h3183, \h8A8E,
                                  \h3A8C, \hFBB7, \h0715, \h5FDC, \hE170, \h73A3, \hEA86, \hCF9D>>),
       y_minus_x |-> from_be_hex(<<\h3F41, \h60A8, \hC1B8, \h46A6, \h26BF, \h109F, \hAB57, \h0E8F,
                                   \h9BED, \hD2FD, \h0506, \hB6F2, \h38C3, \hCF59, \hD51F, \hC8C0>>),
       xy2d |-> from_be_hex(<<\h1E79, \hCB35, \h8188, \hF75D, \h527E, \h9AD2, \h13DE, \h6F33,
                              \hAFEA, \hD107, \hF6DD, \h11BE, \hF261, \h2F5C, \h6F13, \h6C7C>>)],
      [y_plus_x |-> from_be_hex(<<\h478A, \hB52D, \h39D1, \hF2F4, \hDC6C, \h2D0C, \h8645, \h25E5,
                                  \h84A5, \h0C44, \h299D, \hDED9, \h77E9, \h53D8, \hF5E0, \h8181>>),
       y_minus_x |-> from_be_hex(<<\h65D7, \h951B, \h3A3B, \h3831, \h7FF9, \h08E5, \hBCF9, \hDEFC,
                                   \h828B, \h6A7F, \hFE9E, \h10F8, \h0134, \h36C3, \hEEF7, \hE3F1>>),
       xy2d |-> from_be_hex(<<\h16D8, \h7A41, \h1A21, \h2214, \hB82C, \h6B40, \hA6C1, \hC96F,
                              \hE5DD, \hE1BC, \h871A, \hC807, \h66A6, \hA4D3, \h9252, \hD159>>)],
      [y_plus_x |-> from_be_hex(<<\h1F99, \h0B57, \h7A5A, \h6DDE, \h497A, \hC273, \h6EE9, \h778F,
                                  \hE21F, \hAFD7, \h2EBD, \h99FA, \hFBA4, \hD5E2, \hD54E, \h0583>>),
       y_minus_x |-> from_be_hex(<<\h28F8, \h7C81, \h65F3, \h8CA6, \h57C0, \h5DB1, \hD6F9, \h94B7,
                                   \h879B, \hE3CD, \h0C5A, \h24C1, \hB3BD, \h7E5A, \h4206, \h6215>>),
       xy2d |-> from_be_hex(<<\h4588, \h2FE1, \h534D, \h6D3E, \h77C6, \h569E, \h520D, \hE052,
                              \h7D1E, \h50EB, \hACEA, \h798F, \hA334, \h4EAD, \h1BE8, \hF7D6>>)],
      [y_plus_x |-> from_be_hex(<<\h7DCF, \h843C, \hE405, \hF074, \h2699, \hDB13, \hBEC8, \h9AF3,
                                  \hB5F9, \hF161, \hA383, \h92A2, \hD8AC, \h9929, \h943C, \h6FE4>>),
       y_minus_x |-> from_be_hex(<<\h688F, \hE5B8, \hF626, \hF6DD, \h7DDD, \h1857, \h985E, \h128F,
                                   \h62B6, \hED11, \h17AA, \h11A6, \h6669, \h345D, \h7579, \h83D6>>),
       xy2d |-> from_be_hex(<<\h6739, \h687E, \h7327, \h191B, \hB3BE, \h28C3, \h915D, \hC6E1,
                              \hD521, \h43FD, \hCA56, \h3299, \h6C90, \hD648, \h4A47, \h32C0>>)]>>,
    \* LookupTable 24
    <<
      [y_plus_x |-> from_be_hex(<<\h7DA0, \hB8F6, \h8D7E, \h7DAB, \hA7EB, \hF3BE, \h95DB, \hD7C6,
                                  \h97A0, \h5CF4, \h1B38, \hA436, \hA66D, \hCC9D, \hC80C, \h1AC0>>),
       y_minus_x |-> from_be_hex(<<\h4611, \h5ABA, \h1D4D, \hC0B3, \h4CD1, \hEB50, \h5CDF, \hA8CB,
                                   \hA264, \h9F30, \hAAFD, \hA9E8, \hEF78, \h2014, \h3856, \h75A6>>),
       xy2d |-> from_be_hex(<<\h5A5F, \h887E, \h8367, \h4B4B, \h03CC, \h6021, \hFEB2, \h5960,
                              \h1DAC, \h6F73, \h2111, \h9E9B, \hD40F, \h1953, \hC3B5, \hDA76>>)],
      [y_plus_x |-> from_be_hex(<<\h43E3, \h7AE2, \hD5D1, \hC70C, \h9B53, \h0289, \h7C2D, \hEC32,
                                  \hB5C3, \hCB00, \hE6C3, \h2064, \h9E96, \h28D3, \hA0A6, \h43B9>>),
       y_minus_x |-> from_be_hex(<<\h3669, \hB656, \hE44D, \h1434, \hF702, \h97D4, \hA4BC, \hA47E,
                                   \hCFCE, \hB815, \h350D, \hD0C4, \h8F63, \h01CF, \h70A1, \h3D11>>),
       xy2d |-> from_be_hex(<<\h6A21, \hE6CD, \h4FD5, \hE9BE, \hBD5A, \hD8F8, \h3626, \h3811,
                              \h6730, \h1D51, \h99A1, \h3AC0, \h387E, \h3F06, \hEDA6, \hE133>>)],
      [y_plus_x |-> from_be_hex(<<\h4537, \h1B07, \h001E, \h8B36, \h3254, \h32D0, \h1182, \hB0BD,
                                  \h71D3, \h0847, \h708D, \h1301, \hEF41, \h2912, \h6699, \hB2E3>>),
       y_minus_x |-> from_be_hex(<<\h586B, \hF9F1, \hA195, \hFF57, \h69DB, \hBD3C, \h8C82, \hB755,
                                   \h5871, \h2A2A, \h00D2, \h3524, \hF1C6, \h170A, \h3046, \hE65F>>),
       xy2d |-> from_be_hex(<<\h0EAF, \hB037, \h90E5, \h2179, \hAC03, \h49D2, \h61A1, \h6EB8,
                              \h5278, \hF0DC, \h6109, \h37E5, \hA6DB, \h088D, \h5EF8, \h790B>>)],
      [y_plus_x |-> from_be_hex(<<\h44AE, \h3344, \hC543, \h5BB3, \h2CEB, \hDF1E, \hEA92, \h396D,
                                  \hEC02, \hFBE3, \h2662, \hCC30, \h5140, \h805E, \h0F75, \hAE1D>>),
       y_minus_x |-> from_be_hex(<<\h309A, \hCC67, \h5A02, \hC661, \h1C81, \hF738, \h7348, \h6D0C,
                                   \h219A, \h41E6, \h820B, \hAA11, \h9605, \h55C1, \h3748, \h042F>>),
       xy2d |-> from_be_hex(<<\h62D5, \h221B, \h7F94, \h678F, \h1D82, \hE5C6, \h4F93, \h60AA,
                              \hF376, \h0E9D, \h5AC9, \h7142, \h9CF2, \h89B9, \hBBA5, \h43EE>>)],
      [y_plus_x |-> from_be_hex(<<\h14F2, \h9A53, \h8392, \h2037, \hA506, \h7080, \h59F7, \h193D,
                                  \hDFAE, \h7B11, \hFEE9, \h144D, \h7585, \hD426, \h3AF7, \h7A3C>>),
       y_minus_x |-> from_be_hex(<<\h5C0E, \hFDE4, \hBC75, \h4562, \hA375, \h052E, \hDB4A, \h8631,
                                   \hC86B, \hB56C, \h8A0C, \h1A0C, \h524C, \h299C, \h18D0, \h936D>>),
       xy2d |-> from_be_hex(<<\h5E72, \h365C, \h7BEE, \h093E, \hDA92, \h34B7, \hC3ED, \h4C62,
                              \h21F9, \h70DB, \h99B5, \h3040, \hDF71, \h7EDC, \h25B2, \hD7F5>>)],
      [y_plus_x |-> from_be_hex(<<\h70B2, \h0555, \hCB73, \h49B7, \hACFF, \h3DAD, \h1F9E, \hBDFD,
                                  \h5B96, \h59E5, \hDF9F, \h32BE, \h7D93, \h3906, \h2F08, \hB33E>>),
       y_minus_x |-> from_be_hex(<<\h77F1, \h104C, \h47B4, \hEABC, \h9A0A, \h37BB, \hF419, \h1E33,
                                   \h3779, \h675D, \h0694, \hD95B, \h575B, \hFC07, \h4571, \h217F>>),
       xy2d |-> from_be_hex(<<\h0E34, \h398F, \h4A06, \h404A, \h4466, \h7785, \h5E50, \h3B47,
                              \h6688, \h423A, \h9A88, \h1FCD, \hBE51, \h13C5, \h5511, \h2C4C>>)],
      [y_plus_x |-> from_be_hex(<<\h6F8A, \hDED6, \hCA37, \h9C3E, \hF432, \h17DA, \h7339, \h5D6F,
                                  \h7DE3, \hE10E, \h73F3, \hF640, \h1893, \h0B09, \h3E4B, \h1928>>),
       y_minus_x |-> from_be_hex(<<\h5E54, \h0536, \h8A36, \h2372, \h743F, \hA61F, \hB05B, \h6D8D,
                                   \h09B3, \hE841, \h2782, \h2F07, \hB67D, \h22D9, \h3ECE, \hBDE8>>),
       xy2d |-> from_be_hex(<<\h780D, \hE72E, \hC8D3, \hDE97, \hF996, \h7D02, \hFDE6, \h949E,
                              \h487B, \h97E1, \hA21A, \hB291, \hE340, \h123D, \hFDB7, \hB29A>>)],
      [y_plus_x |-> from_be_hex(<<\h1DEF, \hC6AD, \h32B5, \h87A6, \h29A1, \h7FD7, \h9737, \h3292,
                                  \h8F72, \hEB2A, \h2A8C, \h41AA, \h671F, \hEAF3, \h00F4, \h2772>>),
       y_minus_x |-> from_be_hex(<<\h0EB2, \h8BF6, \h7192, \h8CE4, \h38AC, \h1551, \h0A48, \h11B8,
                                   \h388D, \hDECF, \h1C7F, \h4D06, \h0AE2, \h8545, \h089A, \hE7BC>>),
       xy2d |-> from_be_hex(<<\h467D, \h201B, \hF8DD, \h2867, \h2991, \hF7FB, \h7AE5, \hDA2E,
                              \h148C, \h1277, \h917B, \h15ED, \hAF5B, \hBE1A, \hEF51, \h95A7>>)]>>,
    \* LookupTable 25
    <<
      [y_plus_x |-> from_be_hex(<<\h2EF9, \hC5A5, \hBA38, \h4001, \hE410, \h64D2, \h2C1F, \h4EC8,
                                  \h3F62, \h4CB2, \hD644, \h98BD, \hBC1E, \hF4BD, \h567A, \hE7A9>>),
       y_minus_x |-> from_be_hex(<<\h71C4, \h3C4F, \h5BA3, \hC797, \h964E, \h01D3, \h09A4, \h7B01,
                                   \h3A82, \h7BEC, \hF6A3, \h08A2, \h95FE, \h919A, \h74EF, \h4FAD>>),
       xy2d |-> from_be_hex(<<\h5A75, \h8CA3, \h90C5, \hF293, \h8255, \hB3D0, \hF1EF, \h990E,
                              \hF182, \h78BC, \hE4AF, \h267A, \hB6FD, \h6DF6, \hFA9E, \h74CD>>)],
      [y_plus_x |-> from_be_hex(<<\h0A73, \h8027, \hF639, \hD43F, \hD4E6, \hA829, \hAFE8, \hAAD3,
                                  \h8DED, \h3646, \h9A81, \h3066, \h8CE0, \h918B, \h1D61, \hDC94>>),
       y_minus_x |-> from_be_hex(<<\h2DBA, \hE244, \hB3EB, \h72EC, \hE3D4, \h00BF, \hA0B4, \h87CA,
                                   \h3AA8, \hC6D2, \hD57D, \h5003, \hA2B7, \h2710, \hD946, \h2495>>),
       xy2d |-> from_be_hex(<<\h2698, \hCA63, \h5126, \hA69C, \h105C, \h3F4A, \h49FB, \h15FD,
                              \h0067, \h0D0D, \hE183, \h9843, \h980F, \h4A2F, \h57FF, \hE1CC>>)],
      [y_plus_x |-> from_be_hex(<<\h3C00, \h4B0C, \h4AFA, \h3332, \h5E77, \h3EF6, \h024D, \hA96A,
                                  \h9E3F, \h0918, \hE4D2, \h5386, \h2E3D, \h702F, \h5E3D, \hD90E>>),
       y_minus_x |-> from_be_hex(<<\h1FB4, \h3DCC, \h49CA, \hEB07, \h08A8, \h1B91, \hA029, \h1FCC,
                                   \h3818, \h31F7, \h925C, \hFF8B, \hE765, \h3188, \h32B0, \hBA78>>),
       xy2d |-> from_be_hex(<<\h6B43, \hFD01, \hCD1F, \hD217, \h3ED3, \h265F, \hC6CD, \h4787,
                              \h1CA2, \h84A5, \hA806, \hC4F3, \h9AA9, \h46AC, \h06F4, \hB82B>>)],
      [y_plus_x |-> from_be_hex(<<\h7342, \h0B2D, \h6FF0, \hD9F0, \hBF14, \h27C2, \h072B, \h923F,
                                  \h75DC, \h52B9, \hEE0A, \hB990, \hB5C7, \h4258, \h3E76, \h0EF3>>),
       y_minus_x |-> from_be_hex(<<\h5A68, \hD710, \h5B52, \hF714, \h2868, \hB9EB, \hAA46, \h785A,
                                   \h15FD, \hF848, \hDF0F, \hFFBF, \hC7A7, \h5D4B, \h4697, \hC544>>),
       xy2d |-> from_be_hex(<<\h3DB5, \h632F, \hEA34, \hBC9E, \hDA8A, \hB896, \h99FB, \hF373,
                              \h8F59, \h3913, \hC622, \h38C4, \hAF2C, \hF6CB, \h9E85, \h1E06>>)],
      [y_plus_x |-> from_be_hex(<<\h5919, \h7EA4, \h95DF, \h2B0E, \hEEF0, \h3D39, \h4C70, \h4AF8,
                                  \hEDEA, \hEB87, \h3E9A, \h8991, \h2E49, \h90B1, \h8298, \h25D5>>),
       y_minus_x |-> from_be_hex(<<\h0432, \h1ADF, \h49D7, \h5F13, \h1BF2, \hD131, \h499E, \h7273,
                                   \h0D17, \hB1F6, \h3967, \h59A5, \hF46E, \hEE2B, \hF75D, \hD9D8>>),
       xy2d |-> from_be_hex(<<\h45EA, \hFDC1, \hF4D7, \h0CC0, \hC7CE, \h2DC1, \h6F15, \h9AA4,
                              \hE77B, \h437A, \h7E2F, \h92E9, \h04E1, \h6019, \hE4E5, \h5AAE>>)],
      [y_plus_x |-> from_be_hex(<<\h3F73, \hCEEA, \h5D56, \hD940, \h31A0, \h9D1D, \hDC04, \h81C9,
                                  \h59DB, \hC292, \hBD5C, \h0395, \hB60E, \h4624, \hCFCC, \hB1ED>>),
       y_minus_x |-> from_be_hex(<<\h5A5E, \hEBC8, \h0362, \hDADE, \h941A, \h3665, \h6B22, \h2DC6,
                                   \h4C22, \hFAA2, \hCF2F, \h0651, \h6984, \h0185, \h8045, \hD72B>>),
       xy2d |-> from_be_hex(<<\h2605, \h8891, \h2662, \h18DB, \h60C1, \h207F, \h1557, \hAEFA,
                              \hBE57, \h007E, \h44C9, \hB339, \hB7A7, \hBFD1, \h0A4E, \h8DC6>>)],
      [y_plus_x |-> from_be_hex(<<\h0DED, \hFA10, \hB244, \h43B8, \hEC07, \hCCCA, \hB412, \h9F08,
                                  \h5E42, \h2C93, \h03CE, \hCCAD, \h4C81, \h8E3C, \hC676, \hE542>>),
       y_minus_x |-> from_be_hex(<<\h54AD, \h0C2E, \h4E61, \h5D57, \h831B, \h2A73, \h1287, \h3551,
                                   \hC3D9, \h3FDE, \h7661, \hE6F4, \h59F7, \h04A6, \h8360, \hFF04>>),
       xy2d |-> from_be_hex(<<\h62EC, \hB2BA, \hA77A, \h9408, \hA5B4, \hD2F2, \h6EC1, \h9FD3,
                              \h36F1, \h6346, \h9FA5, \hC1EB, \hEE3B, \h67D5, \hB82B, \h522A>>)],
      [y_plus_x |-> from_be_hex(<<\h6191, \h3D50, \h7566, \h3F98, \h5AAD, \h01AD, \hC630, \hA14A,
                                  \h5FCD, \h5E85, \h79E1, \h04A5, \h9207, \h2836, \hAFB6, \h2874>>),
       y_minus_x |-> from_be_hex(<<\h2E59, \hF919, \hA966, \hD8BE, \h7482, \hC8D0, \hB96B, \h4C71,
                                   \h4962, \h357D, \h0EDD, \hD7D1, \hE5ED, \h7952, \h6115, \h2B3D>>),
       xy2d |-> from_be_hex(<<\h3DDB, \hC2A1, \h31C0, \h5D5C, \h02D8, \h0151, \h3F95, \h94CE,
                              \hFA47, \h5832, \h9420, \h0270, \h0DC6, \h2D36, \h1A32, \h31DA>>)]>>,
    \* LookupTable 26
    <<
      [y_plus_x |-> from_be_hex(<<\h5EE7, \hFB38, \hD832, \h05F9, \hE54B, \hE218, \h31A0, \h391C,
                                  \h883A, \hBAB7, \h9B07, \hDA21, \hF3AA, \h57A2, \h2796, \hBB14>>),
       y_minus_x |-> from_be_hex(<<\h7896, \h8314, \hAC04, \hB36B, \h0280, \h07C7, \hF0F8, \h9515,
                                   \h039C, \h2A6B, \h8C2F, \h130D, \h9ADC, \h0FF9, \hCE5E, \hC54B>>),
       xy2d |-> from_be_hex(<<\h61D0, \h633C, \h9BCA, \h0D09, \h46AF, \h908D, \h263C, \h8C78,
                              \hA5AC, \hFDA9, \h4349, \h37F9, \h538D, \hFDCB, \h4144, \h6A8E>>)],
      [y_plus_x |-> from_be_hex(<<\h5B23, \hAC2D, \hF806, \h7BDC, \h637F, \hB4DB, \h38C2, \hA909,
                                  \hEE84, \h695D, \hA6F0, \h37FC, \hADA3, \h28BC, \hF8FC, \h73DF>>),
       y_minus_x |-> from_be_hex(<<\h6E96, \h5FD8, \h47AE, \hD7F5, \h6F1B, \h3280, \h553E, \hEC03,
                                   \hC5BD, \h6B89, \h780B, \h68BB, \h6374, \h4935, \hFFDB, \h2566>>),
       xy2d |-> from_be_hex(<<\h79B9, \hBBB9, \hDD95, \hDEDC, \h0E71, \h1704, \h150E, \h82CF,
                              \hE88F, \h19AA, \hFADE, \h6D8D, \h9AD2, \hB953, \hEE80, \h527B>>)],
      [y_plus_x |-> from_be_hex(<<\h1BA8, \h1146, \h0ACC, \hB834, \hCD6C, \hBA12, \h6D44, \h5F0A,
                                  \hA032, \hA2F8, \hCFBB, \h0816, \hD199, \h7DAE, \h8E9F, \h7374>>),
       y_minus_x |-> from_be_hex(<<\h5065, \hF158, \hC9FD, \h2147, \h6C0C, \h6429, \hE5B9, \h7A82,
                                   \hD263, \h83A8, \h68C8, \hC393, \hEBB3, \h5540, \h6A31, \h26C2>>),
       xy2d |-> from_be_hex(<<\h3981, \hF39E, \h58A4, \hFAF2, \h2EAA, \hB98A, \h70E6, \h45BA,
                              \hE146, \h00AC, \hD76E, \hCF67, \h7081, \h69FB, \h0C42, \h9954>>)],
      [y_plus_x |-> from_be_hex(<<\h30F4, \h452E, \hDCBC, \h1B65, \hE9D2, \hE163, \hC7B4, \hF632,
                                  \hE152, \hA500, \h2C40, \h483A, \hC845, \hDFA5, \h6DE6, \h6FDE>>),
       y_minus_x |-> from_be_hex(<<\h38DC, \h0837, \h05AC, \hD0FD, \h3A85, \hA945, \h14A9, \h3CB5,
                                   \h1D16, \h8F69, \h60E6, \hF45D, \h18FB, \h8A75, \h5923, \h0A93>>),
       xy2d |-> from_be_hex(<<\h632D, \h9A1A, \h593F, \h2469, \h8844, \hFC73, \hC0EA, \h4E71,
                              \hFA13, \h4569, \hF99C, \hBECC, \h856D, \h2782, \hC575, \h9740>>)],
      [y_plus_x |-> from_be_hex(<<\h3A5A, \h7DF2, \h8AF6, \h4BA2, \h2190, \h8C2D, \h57CF, \h8779,
                                  \h63F0, \h7181, \h0D9F, \h693A, \hBF09, \hFD11, \hED0C, \h84A7>>),
       y_minus_x |-> from_be_hex(<<\h0B24, \hF488, \h47ED, \h4A57, \hBB1D, \h9703, \h6E29, \h670B,
                                   \h1823, \hC7DF, \hBC54, \hF0D7, \hF6BB, \h6B15, \hB807, \hCBA6>>),
       xy2d |-> from_be_hex(<<\h34FC, \hF744, \h7548, \h1F63, \hE19C, \hFF9F, \h005F, \h9A65,
                              \hA453, \h8075, \hED26, \hCCF2, \hDCDA, \hD4BE, \h511B, \hEAC7>>)],
      [y_plus_x |-> from_be_hex(<<\h0119, \hA304, \h2FB3, \h74B0, \h9309, \hC911, \h0A92, \h608E,
                                  \h5CED, \hA267, \h190B, \h72F2, \hA5BB, \h1DAB, \h78CF, \hAA98>>),
       y_minus_x |-> from_be_hex(<<\h3D3B, \hDC16, \h4DFA, \h63F7, \h55DE, \h8882, \h83F9, \h5FA8,
                                   \hB871, \h4DCB, \h38D9, \h467D, \hC197, \hE04C, \h7897, \h67CA>>),
       xy2d |-> from_be_hex(<<\h56C0, \h88F1, \hEDE2, \h0A73, \hF565, \h98E5, \hB282, \hA2B0,
                              \h669D, \hA5F6, \h6895, \hD0C1, \h67A2, \hD89C, \hE8C2, \h177D>>)],
      [y_plus_x |-> from_be_hex(<<\h038B, \h7EA4, \h8359, \h038F, \h9A21, \h6902, \h8ACF, \h92F0,
                                  \hA90B, \hE9FE, \hBAE3, \h0CBD, \h581B, \h5FAC, \h24F3, \h8F02>>),
       y_minus_x |-> from_be_hex(<<\h0967, \h4C6B, \h9910, \h8B87, \hF915, \h3376, \h2507, \h2988,
                                   \hD7F3, \h8832, \h0B75, \hB2FA, \h336D, \h3D11, \h10A8, \h6E17>>),
       xy2d |-> from_be_hex(<<\h6E5E, \h3102, \h5969, \hEB65, \h0971, \hA5AB, \h5AEF, \h3174,
                              \h2F49, \hD282, \hEAA7, \h8D4F, \h9F4E, \hF821, \h9931, \h6FF8>>)],
      [y_plus_x |-> from_be_hex(<<\h3058, \hAD43, \hD183, \h8620, \hBD19, \h2477, \h8C10, \h61A3,
                                  \hFB35, \h0689, \h87AC, \hBA3F, \h3304, \hFB0E, \h6306, \h6222>>),
       y_minus_x |-> from_be_hex(<<\h08F5, \h1147, \h89A8, \hDBA8, \hB491, \hC1E0, \h14CC, \h3E6D,
                                   \h4999, \hEDDE, \hCA5D, \h3E71, \hB16C, \h62F5, \h87E5, \h93FB>>),
       xy2d |-> from_be_hex(<<\h2654, \h9FA4, \hEFE3, \hDC99, \hBDC7, \h8ABD, \hAC99, \h4F9A,
                              \h05C3, \hDF38, \hA22E, \hA610, \h323C, \h0FFD, \hE576, \h63D0>>)]>>,
    \* LookupTable 27
    <<
      [y_plus_x |-> from_be_hex(<<\h3A10, \hDFE1, \h32CE, \h3C85, \h3DF2, \h3FF7, \hA4BA, \h0C47,
                                  \hD77F, \hCF04, \hF14A, \h0EA5, \hDB46, \h8549, \hAF3F, \h666E>>),
       y_minus_x |-> from_be_hex(<<\h1926, \hE1DC, \h6401, \hE0FF, \hD455, \h74A2, \h6474, \hD3D9,
                                   \h2305, \hB3FC, \h7777, \hA581, \h741D, \h5A46, \h1E6B, \hF9D6>>),
       xy2d |-> from_be_hex(<<\h1FA1, \hD01D, \h861E, \h5D15, \h1753, \h22FD, \h31F2, \hC0F1,
                              \h2FD5, \h1546, \h3A1F, \hC1FD, \hE07F, \h4E8A, \hEA17, \hCEA0>>)],
      [y_plus_x |-> from_be_hex(<<\h73FC, \hED18, \hEE9A, \h01E5, \h7F13, \hE93E, \hFDD5, \hE262,
                                  \h2E71, \h2BDD, \hD108, \h0DE9, \h38DC, \hAC00, \hD1DF, \h94AB>>),
       y_minus_x |-> from_be_hex(<<\h7735, \h63BC, \h6A75, \hCF33, \h99F6, \hF774, \h4E05, \h9320,
                                   \h1E46, \h56DA, \h37F1, \h5520, \hCC80, \h5594, \h7D59, \h9832>>),
       xy2d |-> from_be_hex(<<\h1F42, \h6B70, \h1B86, \h4F44, \h8D77, \hCEC8, \hAD63, \h8932,
                              \hA493, \hDA67, \hC5A0, \h3ECD, \h06B1, \hE908, \h6313, \h9CB3>>)],
      [y_plus_x |-> from_be_hex(<<\h0B76, \hBB1B, \h3FA7, \hE438, \hFA83, \h406F, \h0D9B, \h723E,
                                  \hB76B, \h8153, \h575E, \h9C76, \hF17E, \h35C8, \h91A1, \h2552>>),
       y_minus_x |-> from_be_hex(<<\h4E1A, \hF527, \h1D31, \hB090, \h5875, \hDA6B, \hF30F, \h1447,
                                   \hF1A3, \hB7B8, \h17A2, \h2C25, \hEFC9, \h264C, \h4191, \h1C01>>),
       xy2d |-> from_be_hex(<<\h7B6D, \hD61E, \hB772, \hA955, \h22E5, \h6463, \h99BB, \h8017,
                              \hBE67, \h71CB, \hD444, \hAB6E, \h08B8, \hC1F9, \h7F92, \h939B>>)],
      [y_plus_x |-> from_be_hex(<<\h53FA, \h9B65, \h9BFF, \h6AFE, \h866C, \hBE65, \hA0CB, \hB281,
                                  \h16FB, \h76DC, \h4014, \h3B18, \h5730, \hABF9, \hAB01, \hD2C7>>),
       y_minus_x |-> from_be_hex(<<\h703E, \h9BCE, \hAF1D, \h2F4F, \hAD96, \h2DBD, \h8DFC, \h5BDB,
                                   \h7998, \hFA4F, \h608C, \hD5CF, \hB7AD, \hC1E8, \h50F3, \h3D92>>),
       xy2d |-> from_be_hex(<<\h398D, \h93E5, \hC4C6, \h1F50, \h181B, \hB73E, \hBCD6, \h5AF1,
                              \h843A, \h5D66, \h65AE, \hD4E5, \h6C14, \hC8E9, \h9488, \h5455>>)],
      [y_plus_x |-> from_be_hex(<<\h699C, \h9C90, \h02C3, \h0577, \h283E, \h26E7, \h739E, \hF138,
                                  \h3B34, \hAAA0, \h3082, \h8BB1, \hC387, \h7C60, \hD2E7, \hE3F2>>),
       y_minus_x |-> from_be_hex(<<\h53B0, \h9B5D, \hDF19, \h1B13, \hD43F, \h8CF0, \hA10B, \h0376,
                                   \hBD9E, \h1287, \h15BF, \h0A5F, \h1C4B, \hD167, \h33E2, \h48F3>>),
       xy2d |-> from_be_hex(<<\h51CA, \hF30C, \h6FCD, \hD907, \h28CD, \hD247, \h81B4, \hE975,
                              \h9217, \h18B5, \hCCE5, \hD97D, \hF306, \hA723, \h5946, \hF1CC>>)],
      [y_plus_x |-> from_be_hex(<<\h12AE, \h29C1, \h89F8, \hE99A, \h2B89, \hBC33, \h4CE1, \h0CC7,
                                  \h9033, \h78DC, \hC51C, \hB30F, \h737A, \hF99A, \h18AC, \h54C7>>),
       y_minus_x |-> from_be_hex(<<\h5504, \hAA29, \h2383, \hFDAA, \h3758, \h563D, \hCF33, \h24CC,
                                   \h630E, \h8570, \hA17A, \h7BF3, \hA60B, \hA742, \h7674, \hE00A>>),
       xy2d |-> from_be_hex(<<\h5FD1, \h4FE9, \h58EB, \hA5EA, \h55CA, \h7521, \hD09C, \h4E22,
                              \h0DD1, \hEFCC, \h3A34, \hF7AE, \hA99E, \hC0CB, \h1F0D, \h01CF>>)],
      [y_plus_x |-> from_be_hex(<<\h7DD7, \h3F96, \h0725, \hD128, \hE0F0, \h859E, \h8842, \h20E8,
                                  \hBEDF, \hA851, \h36D4, \h565F, \h3C42, \hFE5E, \hBF93, \hCB8E>>),
       y_minus_x |-> from_be_hex(<<\h093F, \hF26E, \h5864, \h74D1, \h4DAA, \hF3D6, \h4002, \hE346,
                                   \h0694, \h91B1, \h0A7F, \hE993, \hB5DC, \h2DDF, \h2845, \hAB2C>>),
       xy2d |-> from_be_hex(<<\h2F59, \hBCBC, \h86B4, \h70A4, \h1367, \h253A, \hB457, \hAC29,
                              \h7573, \h0672, \hDBAF, \h23E5, \hB10D, \h24FE, \h6805, \h9829>>)],
      [y_plus_x |-> from_be_hex(<<\h2AA5, \h5E3D, \h0108, \h28B1, \h16C2, \hE163, \h1133, \h5585,
                                  \h8520, \h1B3F, \hADD7, \hE71E, \h7041, \hD560, \hB691, \hC301>>),
       y_minus_x |-> from_be_hex(<<\h5458, \hB42E, \h2E51, \hAF4A, \h7E77, \h48D9, \hBE77, \hAAD1,
                                   \hAD1B, \h911F, \h567D, \h03D7, \h8384, \h7D42, \h9917, \h135F>>),
       xy2d |-> from_be_hex(<<\h13E9, \h004A, \h8A76, \h8664, \h352B, \h4C82, \hFDB5, \hC864,
                              \h42C5, \h4E2D, \h7442, \h1D10, \hED51, \h92E6, \h0C07, \h444F>>)]>>,
    \* LookupTable 28
    <<
      [y_plus_x |-> from_be_hex(<<\h5F46, \h0408, \h98DE, \h9E1A, \hECF3, \hB7C0, \h36DE, \h649F,
                                  \hECE3, \hA890, \hE0DC, \h506B, \hBB2E, \h00C9, \h193B, \h877F>>),
       y_minus_x |-> from_be_hex(<<\h7393, \h7E88, \h14BC, \hE45E, \h32BC, \h0DCA, \hB74F, \hFEF7,
                                   \hFA38, \hD6C9, \hAE6B, \hF863, \h739D, \h8845, \h832F, \hCEDB>>),
       xy2d |-> from_be_hex(<<\h2CF8, \hA4E8, \h91D5, \hE835, \hE197, \h1557, \h4696, \hBDC6,
                              \hA9D1, \h3B22, \hD4F0, \h6834, \hB903, \h7116, \h297B, \hF48D>>)],
      [y_plus_x |-> from_be_hex(<<\h7A6F, \h7F28, \h91D6, \hA4F6, \hD765, \h9C81, \h8597, \h8A30,
                                  \h24D2, \h381C, \h3950, \h196B, \h2CB5, \h487E, \h17D0, \h6BA2>>),
       y_minus_x |-> from_be_hex(<<\h2049, \hBD6E, \h5825, \h2A09, \h7CB1, \h6A4C, \hC273, \h6A86,
                                   \hDD4C, \h09D3, \h7C38, \hB549, \h6D93, \hFD87, \h0711, \h0F67>>),
       xy2d |-> from_be_hex(<<\h6011, \hAADF, \hC545, \h941D, \h4C21, \hB52C, \h519E, \hBFD4,
                              \hF0EE, \h60BE, \h5B3D, \hB90B, \h7D09, \hFD8D, \h6A9A, \hEF49>>)],
      [y_plus_x |-> from_be_hex(<<\h69CE, \h18B7, \h7934, \h0B1E, \h624D, \h0AFD, \hB9B6, \hED99,
                                  \hFBD0, \h98CA, \h0DFF, \h6AAA, \h63DE, \hD0C8, \h02CB, \hF890>>),
       y_minus_x |-> from_be_hex(<<\h6FC5, \hCC1B, \h0B62, \hF9E0, \hD6A1, \hE7F3, \h998F, \h7A5B,
                                   \h7C7E, \h8561, \h7128, \h9071, \h5F67, \h926D, \hCF95, \hF83C>>),
       xy2d |-> from_be_hex(<<\h1559, \h6B3A, \hE571, \h01F1, \h127E, \h0442, \h189F, \h2352,
                              \hDD1A, \hAE3C, \hD47E, \h9092, \hD1EF, \h5528, \hB298, \h79CB>>)],
      [y_plus_x |-> from_be_hex(<<\h3AA4, \hE241, \hAFB6, \hD138, \h292B, \h7D22, \h7EF5, \h56E5,
                                  \h0BE4, \h158B, \hD9C7, \h45DF, \h09FF, \h3116, \h7E51, \h24CA>>),
       y_minus_x |-> from_be_hex(<<\h0D22, \h3768, \h7B5F, \h4DDA, \h1307, \hDEB5, \h53F2, \h148A,
                                   \hFF83, \h1231, \h97D6, \hDDCF, \h4627, \h39D2, \h3F91, \h79A2>>),
       xy2d |-> from_be_hex(<<\h32FC, \hAA6E, \h4687, \hA36C, \h083A, \hB1A2, \h5549, \hD2EB,
                              \h4858, \h3F8F, \hA2E9, \h26C3, \h2CC1, \h38BF, \h2A33, \h05F5>>)],
      [y_plus_x |-> from_be_hex(<<\h746F, \h6336, \hC260, \h0BE9, \hD5B2, \hECD7, \hF60D, \h964E,
                                  \h17E3, \h1908, \hF213, \hE3F8, \h3207, \hA473, \h2787, \hCCDF>>),
       y_minus_x |-> from_be_hex(<<\h4627, \hE9CE, \hFEBD, \h6A5C, \hAAC0, \h14DE, \h22EF, \hE4A3,
                                   \h3E0B, \hD2ED, \h9DF0, \hBDF2, \h7BC5, \h6E8D, \hC57D, \h9AF5>>),
       xy2d |-> from_be_hex(<<\h7B49, \h1700, \h7ED6, \h6293, \h3359, \h6A8A, \h0344, \h186D,
                              \hE288, \hEB72, \h9943, \h731F, \h3F4A, \hF345, \hAB6C, \h971C>>)],
      [y_plus_x |-> from_be_hex(<<\h1D03, \h620F, \hE08C, \hD37D, \h0FF5, \h92D9, \h4DD2, \hF8F4,
                                  \hAA17, \h905B, \hDF42, \hFC3F, \h5434, \h1B28, \hDD53, \hA2DD>>),
       y_minus_x |-> from_be_hex(<<\h122B, \hA376, \hF844, \hFD7B, \h476A, \hDC44, \h7B15, \hCE0C,
                                   \h4978, \h10D2, \h89F3, \hBC14, \h2D85, \hFB5C, \hAB84, \hB064>>),
       xy2d |-> from_be_hex(<<\h02C7, \h0BF5, \h2B68, \hEC4C, \h2EAB, \hB4BE, \h7DD4, \h79D9,
                              \h9ED0, \hFD42, \h115D, \h187F, \hC202, \h32CD, \hA2B4, \hE554>>)],
      [y_plus_x |-> from_be_hex(<<\h6B06, \h97E3, \hFEB4, \h3A03, \h56CF, \h7D94, \hEE8B, \hBDE7,
                                  \h5BE7, \h68E0, \h7CB7, \h3CB5, \hACE5, \h32BF, \h458D, \h72E1>>),
       y_minus_x |-> from_be_hex(<<\h2633, \h4F0A, \h409E, \hF5E0, \hE044, \hA61E, \hC1D0, \h815C,
                                   \h415C, \h5790, \h0748, \h82CA, \hA287, \hEC4B, \h5D0B, \h2FBB>>),
       xy2d |-> from_be_hex(<<\h1CC3, \h7F43, \h441B, \h2FAE, \h9C9C, \hB958, \h49F0, \hD2A9,
                              \h3EF0, \h00EF, \h076D, \hA45D, \hB6C8, \hF04A, \hDF62, \hA3C0>>)],
      [y_plus_x |-> from_be_hex(<<\h3A34, \h6F77, \h2F19, \h6838, \h26E7, \h2832, \h844C, \h2334,
                                  \h1C5B, \h15F8, \h18E5, \h656A, \hD766, \h56F1, \hC9CE, \hAEB9>>),
       y_minus_x |-> from_be_hex(<<\h6C68, \h09C1, \h0380, \h314A, \hFB18, \hABDB, \h5C45, \hAC19,
                                   \hD061, \hC4C0, \hE506, \hA922, \h508F, \h565A, \h5CC7, \h324F>>),
       xy2d |-> from_be_hex(<<\h0591, \h1B9F, \h6EF7, \hC5D0, \h9607, \h46DD, \h8EC6, \h7262,
                              \hE9BD, \h0331, \hB1E8, \h51ED, \hD2D5, \h5112, \hE2DA, \h6AC8>>)]>>,
    \* LookupTable 29
    <<
      [y_plus_x |-> from_be_hex(<<\h555E, \hF9D1, \hC64B, \h2D17, \h2418, \h0C07, \hA99A, \h688D,
                                  \h20C1, \h41D3, \h1CC1, \hCB49, \h5349, \hACF3, \h512E, \hEAEF>>),
       y_minus_x |-> from_be_hex(<<\h6B3C, \hECF9, \hAA27, \h0C62, \h2CF1, \h130A, \h0BB3, \h98E1,
                                   \hC0F3, \h758F, \h512C, \h4CAC, \hC133, \h9983, \hF5DF, \h0EBB>>),
       xy2d |-> from_be_hex(<<\h675F, \h4DE1, \h3381, \h749D, \h5737, \hFF98, \hB409, \h46F2,
                              \h624A, \hEF08, \hA3AF, \hBF0C, \h36A7, \h70BA, \h3B73, \hBD08>>)],
      [y_plus_x |-> from_be_hex(<<\h60F4, \h50B8, \h82CD, \h3C43, \h019C, \h4FF3, \h9ABE, \h9487,
                                  \h0725, \hD80F, \h9D65, \h2DFE, \hA12F, \hF6D9, \h3BDA, \hB31D>>),
       y_minus_x |-> from_be_hex(<<\h13D9, \h9DF7, \h0164, \hC520, \hD0DC, \hBDD9, \h6964, \h073E,
                                   \h6481, \h6C81, \h6CAD, \h83B4, \h0E2C, \h5203, \h6B17, \h82FC>>),
       xy2d |-> from_be_hex(<<\h1C06, \hDE9E, \h55ED, \hAC80, \h4E5F, \h1C18, \h7500, \h23A0,
                              \h4FCB, \h69C9, \hD719, \hBFA2, \h014B, \h5EC3, \h21E5, \hC0CA>>)],
      [y_plus_x |-> from_be_hex(<<\h7809, \h6F8E, \h7D32, \hBA2D, \h5E4A, \h5C2F, \hA34D, \h9897,
                                  \h3453, \h0B18, \hDC40, \h49BB, \hFFD5, \h2B40, \hFF6D, \h69AA>>),
       y_minus_x |-> from_be_hex(<<\h4CF3, \h8A1F, \hEC2D, \hB60D, \h9CA1, \h43C5, \h6328, \h4515,
                                   \h6608, \hF938, \hBE2E, \hE08E, \h990F, \h7AD6, \hA33E, \hC4E2>>),
       xy2d |-> from_be_hex(<<\h373C, \hAD3A, \h2609, \h1ABE, \h4F09, \hCC7D, \h7003, \h725B,
                              \hF9C4, \h9E2A, \h48B5, \h478C, \hA0AA, \hAA65, \h0DFA, \h5CE7>>)],
      [y_plus_x |-> from_be_hex(<<\h2154, \h7EDA, \h5112, \hA686, \h8F58, \hA7BB, \h1F9B, \h8D9D,
                                  \h3BCB, \h2CBC, \h61AE, \hAECB, \hF1BE, \hA8FB, \h89DD, \hBBAD>>),
       y_minus_x |-> from_be_hex(<<\h0040, \hF3D9, \h4544, \h19FC, \h9E9C, \h4DB3, \h418C, \hDB5A,
                                   \h1FCB, \hFDE1, \h2493, \h4536, \hB294, \h634D, \h82C9, \hF57C>>),
       xy2d |-> from_be_hex(<<\h6355, \h0A33, \h4A25, \h4DF4, \hB72B, \hA407, \hBB31, \h19B9,
                              \hF427, \h2C89, \h510A, \h380C, \hDEFD, \hE939, \hFD59, \h86D3>>)],
      [y_plus_x |-> from_be_hex(<<\h39A9, \h2BAF, \hAA7D, \h767A, \h60E8, \hFA69, \hC734, \hF18D,
                                  \hF305, \hC6FA, \hE2C4, \h08E0, \h9BBA, \h5845, \h7254, \h7B49>>),
       y_minus_x |-> from_be_hex(<<\h3EEA, \h62C7, \hDAF7, \h8F51, \hEA7C, \h0090, \hEB6B, \hD65D,
                                   \h1784, \h29B0, \h0CA5, \h2EE1, \h6507, \hD6ED, \hB569, \hCF37>>),
       xy2d |-> from_be_hex(<<\h6843, \h6A06, \h65C9, \hC4CD, \h7052, \h5560, \hEB8A, \hB39A,
                              \h5F63, \h8577, \h68DB, \hD375, \h9D24, \hC713, \hE693, \h274E>>)],
      [y_plus_x |-> from_be_hex(<<\h5373, \h669C, \h9161, \h1472, \hC1E0, \hA1C6, \h320F, \hFC7A,
                                  \hC526, \h6844, \h840A, \hE965, \h1E56, \hD317, \hE820, \h107C>>),
       y_minus_x |-> from_be_hex(<<\h17B6, \hE7F6, \h8AB7, \h89F9, \h91A4, \hE9D5, \hA38C, \h2416,
                                   \hC75C, \h00E2, \h64F9, \h75B0, \hBC02, \h35E8, \h202F, \h3F27>>),
       xy2d |-> from_be_hex(<<\h1CB4, \hB5A6, \h78F8, \h7D11, \hAFCA, \hF588, \h5B2D, \h1ECA,
                              \h908F, \h2084, \hC9CA, \hB3FC, \h5D28, \h14AB, \h9A0E, \h5257>>)],
      [y_plus_x |-> from_be_hex(<<\h2DC0, \hFD2D, \h82EF, \h6EAC, \h5707, \hE438, \h000B, \hE223,
                                  \hF311, \hE0B0, \hF071, \hC7B1, \h6B74, \hAA62, \hA2A0, \h07E7>>),
       y_minus_x |-> from_be_hex(<<\h330B, \hCA78, \hDE74, \h34A2, \h4F8D, \h0316, \h4BCA, \hD834,
                                   \h0C88, \hDE24, \h98DA, \h5FB1, \hB664, \hC06B, \h394A, \hFC6C>>),
       xy2d |-> from_be_hex(<<\h3C31, \hBE1B, \h369F, \h1CF5, \hC58A, \hC14F, \hBFC9, \h53FB,
                              \hF969, \h5E96, \h2B07, \h4724, \h982E, \hFF84, \h1119, \h744E>>)],
      [y_plus_x |-> from_be_hex(<<\h41CE, \hC109, \h7E7D, \h55BB, \h7F0E, \h52AA, \h34AC, \h8D7A,
                                  \hAEB8, \h711F, \hC7CE, \hDB98, \hC168, \hBC93, \hF9CB, \h4272>>),
       y_minus_x |-> from_be_hex(<<\h330B, \h6113, \h4262, \hD4BB, \h7975, \hCDAE, \hA6AC, \hA158,
                                   \h07DC, \h19EE, \h91BA, \h1C6F, \hB0F4, \h864D, \h0894, \h8AEE>>),
       xy2d |-> from_be_hex(<<\h26B4, \h4CD9, \h1F28, \h777D, \h73D7, \hC36C, \hDBA1, \hDF27,
                              \hBB1F, \hD49E, \h1D9E, \h156D, \hF796, \h19D7, \hA26D, \h808A>>)]>>,
    \* LookupTable 30
    <<
      [y_plus_x |-> from_be_hex(<<\h7DEB, \h1014, \h9C72, \h610F, \hDAFC, \h778A, \hBFD4, \h1314,
                                  \h4B52, \h79FF, \hEBCA, \h8A2C, \hE1B7, \hF293, \h6273, \h0383>>),
       y_minus_x |-> from_be_hex(<<\h2C70, \h9E6C, \h1C10, \hA5D6, \h9AAB, \h1244, \hD99F, \h2055,
                                   \hB25D, \hBCF4, \h9CBE, \hCB3C, \h51F0, \h4847, \h8F38, \h7475>>),
       xy2d |-> from_be_hex(<<\h08E6, \h8E9F, \hF62C, \hE2EA, \h5880, \h0138, \h0F0B, \hE4B5,
                              \h66CB, \hEC04, \h5553, \hCD0E, \hCB62, \hAF6A, \h8766, \hEE7A>>)],
      [y_plus_x |-> from_be_hex(<<\h4CB1, \h3BD7, \h38F7, \h19F5, \h4A8F, \h3426, \h7376, \h6CB9,
                                  \hACB9, \h218D, \hC559, \h23DF, \h2F2D, \h09D5, \h0AB8, \hF2F9>>),
       y_minus_x |-> from_be_hex(<<\h2F1F, \h3F87, \hEEBA, \h3B09, \hA25C, \h3D98, \h500A, \h89BE,
                                   \h8D38, \hDB49, \h3D0B, \hD49C, \h34AD, \h500A, \h4BC1, \h30AD>>),
       xy2d |-> from_be_hex(<<\h19A1, \hE353, \hC0AE, \h2EE8, \hC20D, \h313F, \h3F75, \h1B50,
                              \hA595, \h01BA, \hDB4A, \h9038, \hF784, \h8C75, \hE515, \hB64A>>)],
      [y_plus_x |-> from_be_hex(<<\h736B, \hD399, \h0266, \hAE34, \h9FB1, \h5347, \hB441, \h09B5,
                                  \h93E0, \h4543, \h98EE, \hFC40, \hB421, \h72CD, \hD596, \hBDBD>>),
       y_minus_x |-> from_be_hex(<<\h4154, \h6B11, \hC20C, \h3486, \hE352, \h9718, \hC0D6, \h6473,
                                   \hB3E1, \hA0A0, \hC6E5, \h5E61, \h7D1C, \h7560, \hBAFA, \h05C3>>),
       xy2d |-> from_be_hex(<<\h4122, \h95A2, \hB87F, \hAB5C, \hCC5F, \h5F30, \h425C, \h8375,
                              \h46FD, \h114B, \h6081, \h6573, \h8553, \h2D50, \h9334, \hB3B4>>)],
      [y_plus_x |-> from_be_hex(<<\h0760, \hBB8D, \h195A, \hDD80, \h4609, \h75CB, \h7900, \h996B,
                                  \h845A, \h9203, \h2133, \hACDB, \h2E65, \h5261, \hE293, \hEAC6>>),
       y_minus_x |-> from_be_hex(<<\h14E1, \h53EB, \hB52D, \h2E34, \h5CEE, \h3213, \hB30A, \hD273,
                                   \h5393, \hCB26, \h6DF8, \hC825, \h19C9, \h9B88, \hF57E, \hD6E9>>),
       xy2d |-> from_be_hex(<<\h6B34, \hBE9B, \hC33A, \hC5F2, \h2CBF, \h268F, \h46CA, \hCCB1,
                              \h5715, \h6DA9, \hED69, \hA084, \h413E, \h1A17, \hCDE6, \h818A>>)],
      [y_plus_x |-> from_be_hex(<<\h01B9, \hC7B6, \h2E6D, \hD30B, \hE33A, \hE7A2, \hD4FE, \h5035,
                                  \hC6C9, \hE845, \h530E, \h737A, \h11FC, \h6965, \h6571, \hF2D3>>),
       y_minus_x |-> from_be_hex(<<\h2012, \hC18F, \h0922, \hDD2D, \hEC7D, \h1C5E, \h49C1, \hB5A3,
                                   \h4C3E, \h971E, \hF22E, \h027C, \hF3DF, \h2F64, \h3A78, \hC0B2>>),
       xy2d |-> from_be_hex(<<\h08AF, \h5B78, \h4E4B, \hADE8, \h3D36, \hEFDF, \hC2E7, \h6C1F,
                              \h1483, \h241F, \h45A0, \hA763, \h880B, \h55E5, \h5AC8, \h9D29>>)],
      [y_plus_x |-> from_be_hex(<<\h6423, \hC1D5, \hAFD9, \h826E, \h18D5, \h28D6, \hFA33, \h64CE,
                                  \h4BE4, \hBD11, \hA287, \h178D, \hE273, \h14D2, \h89CC, \h2C4B>>),
       y_minus_x |-> from_be_hex(<<\h32B7, \h9D71, \h163A, \h168D, \h897A, \hDDFB, \h6734, \h41F4,
                                   \h9D05, \h25DA, \h7793, \h23B6, \h2834, \h99DC, \h881F, \h2533>>),
       xy2d |-> from_be_hex(<<\h480A, \h5EFB, \hC13E, \h2DCC, \hE49D, \hE338, \hF9E5, \hD3CD,
                              \h22BC, \hC28F, \h3746, \hE5F9, \hCC85, \hF8D9, \hEDFC, \hB36A>>)],
      [y_plus_x |-> from_be_hex(<<\h24B3, \h1D47, \h691C, \h8E06, \h663F, \hB4A4, \hDC1C, \hBE03,
                                  \h6E19, \h9DCC, \h4C05, \h3928, \hB661, \h4CE4, \h42CE, \h221F>>),
       y_minus_x |-> from_be_hex(<<\h47AA, \h2760, \h0CB7, \hBF31, \h2C6B, \hB061, \hEF5A, \hABCD,
                                   \h06B5, \h05CF, \h8B1D, \hAFC5, \h0B51, \hE70B, \h0162, \h2071>>),
       xy2d |-> from_be_hex(<<\h545B, \h585D, \h14DD, \hA094, \hF0AF, \h6613, \h4EA2, \h78D6,
                              \h11A4, \hFE7E, \h7C69, \h3F7C, \h2A54, \h1EED, \hC015, \hF8C3>>)],
      [y_plus_x |-> from_be_hex(<<\h4D22, \hDC3E, \h64C8, \hD071, \h0B0C, \hCFFD, \h5B99, \hBD9E,
                                  \h3BAA, \h637A, \h28FF, \h1E95, \h6204, \hE4D0, \hE3B3, \h21E1>>),
       y_minus_x |-> from_be_hex(<<\h0F62, \hF9C3, \h32BA, \h5454, \h4289, \h134C, \hD479, \hE72E,
                                   \hADE6, \h8E34, \h089B, \hEEBE, \h67BF, \h275E, \hA0D4, \h3A0F>>),
       xy2d |-> from_be_hex(<<\h1C0F, \hA01A, \h3637, \h1436, \hFEBA, \hC2D2, \h953A, \hFA05,
                              \h5CAE, \h6A3F, \h57CB, \hCF61, \hFCB4, \h6589, \hD63B, \h5F39>>)]>>,
    \* LookupTable 31
    <<
      [y_plus_x |-> from_be_hex(<<\h4005, \h419B, \h1D2B, \hC140, \h6FB7, \h3E54, \hC4DF, \hB634,
                                  \hF9C9, \hA035, \hC1DA, \hC5B6, \h6908, \h2B0E, \h8C93, \h6A50>>),
       y_minus_x |-> from_be_hex(<<\h0FA3, \h614F, \h3B1C, \hA6BF, \h5D25, \h4FF3, \h9780, \h8678,
                                   \hBC8C, \hBECE, \h44CF, \hB3A0, \hD2C6, \h04B6, \h2294, \h3DFF>>),
       xy2d |-> from_be_hex(<<\h1FBA, \h218A, \hEF40, \hAB42, \hF849, \h9F91, \h1954, \hFA8E,
                              \h2089, \hC1AF, \h3A44, \hAC90, \hA003, \hFEBD, \hB9BE, \h82F0>>)],
      [y_plus_x |-> from_be_hex(<<\h6C53, \h5D13, \hFF77, \h61D5, \hC839, \hC6AB, \h99DC, \hDEF1,
                                  \hA81D, \h3EEE, \h08DA, \hAF7F, \h4F3E, \h5704, \h3E7B, \h0194>>),
       y_minus_x |-> from_be_hex(<<\h392E, \h3ACA, \hA8C8, \h6E42, \h74FD, \h6C7D, \h6C2B, \h5E01,
                                   \h81F6, \hE89A, \h7BA6, \h3741, \hAB54, \h9448, \hFAC8, \hF53E>>),
       xy2d |-> from_be_hex(<<\h25E1, \h7FE4, \hD50A, \hC13B, \h1931, \h9C76, \hF29A, \hB0AB,
                              \h2E07, \h8144, \h5887, \hE816, \h4CBD, \h34E9, \h3E8A, \h35AF>>)],
      [y_plus_x |-> from_be_hex(<<\h6BBA, \h828F, \h8969, \h899B, \hCCBA, \h2FDE, \h4D1B, \hE526,
                                  \hC34A, \h3227, \h2FCD, \h87E3, \h915F, \h7FF5, \h76F1, \h21A7>>),
       y_minus_x |-> from_be_hex(<<\h2557, \h5144, \h2A9F, \hB351, \h5186, \hD8B0, \h3469, \h1FAB,
                                   \h208E, \h1C52, \hD642, \h0F95, \h0A28, \h9BD7, \h1E04, \hF676>>),
       xy2d |-> from_be_hex(<<\h559D, \h504F, \h7F6B, \h7BE4, \h971D, \h6914, \hAF84, \h60D4,
                              \h4CB5, \h4A18, \hA099, \h7AD5, \hE2D1, \hBC66, \h90FE, \h3901>>)],
      [y_plus_x |-> from_be_hex(<<\h123E, \hA6A3, \h354B, \hD50E, \h8838, \h8F1D, \h6061, \hE23B,
                                  \h0744, \hA19B, \h0307, \h781B, \h9C48, \h91E7, \hF6D2, \h66FD>>),
       y_minus_x |-> from_be_hex(<<\h01AB, \h12D5, \h807E, \h3217, \h0A26, \hCF62, \hF928, \h00BA,
                                   \h1D69, \hD366, \hA555, \h3C7C, \hA773, \h8378, \hB3EB, \h54D5>>),
       xy2d |-> from_be_hex(<<\h4A39, \h61E2, \hC918, \hA154, \h1EAB, \h4271, \hD832, \h45D9,
                              \hB9ED, \hE3C2, \hD831, \h5848, \h118D, \h1890, \h41E3, \h2D96>>)],
      [y_plus_x |-> from_be_hex(<<\h68AC, \hEEAD, \h9BD4, \h111F, \h83B5, \hA716, \hF2DA, \hB979,
                                  \h499A, \h260E, \h34FC, \hF016, \h0327, \hD644, \hF323, \h3F1E>>),
       y_minus_x |-> from_be_hex(<<\h2CD6, \hBCE3, \hFB1D, \hB763, \hA992, \h425F, \hE13A, \h476A,
                                   \hD6CE, \hF834, \h7EFF, \hE30A, \h71DC, \h3BE0, \hF8E6, \hBBA0>>),
       xy2d |-> from_be_hex(<<\h5957, \h60D5, \hB508, \hF597, \h3860, \hD9F1, \hB7E7, \h3E23,
                              \h308E, \h6E24, \hB7AD, \h040C, \h38B4, \hC90E, \hF3D7, \hC210>>)],
      [y_plus_x |-> from_be_hex(<<\h2CB2, \hC5DF, \h5451, \h5A2B, \h65F4, \h92E3, \h7D34, \h73F4,
                                  \h89AF, \h3305, \hC411, \h5760, \h882A, \hCBEB, \hFD02, \h2790>>),
       y_minus_x |-> from_be_hex(<<\h709F, \hA43E, \hDCB2, \h91A9, \h3F8B, \hC089, \h7D90, \h9458,
                                   \h8F96, \h0008, \hA4A7, \hFCCB, \h6129, \hBFE1, \h04AA, \h6397>>),
       xy2d |-> from_be_hex(<<\h70F0, \h29EC, \hF0C8, \h131F, \h2723, \hF36E, \hF8CB, \hB03A,
                              \hD22B, \hC166, \h2E69, \h4EFF, \hEB0A, \h5D8C, \h63FD, \h2ACA>>)],
      [y_plus_x |-> from_be_hex(<<\h44EC, \hA5A2, \hA74B, \hD9E1, \h773E, \hFB77, \hAA3A, \hD61F,
                                  \h78F0, \hA370, \hEF04, \h1AA9, \h2A6A, \hAFAA, \h5E10, \hB0B9>>),
       y_minus_x |-> from_be_hex(<<\h0B7D, \h5D8A, \h6C31, \h4858, \hC944, \h49D3, \h195F, \h0366,
                                   \hAE04, \h2F33, \hA455, \h81E7, \h4613, \h07B3, \h2EED, \h3E33>>),
       xy2d |-> from_be_hex(<<\h2722, \h2451, \h2C7D, \hE9E4, \hDE1C, \h531C, \h60E1, \hC52B,
                              \h70D3, \h8300, \hA334, \h0F1D, \h25D4, \h4832, \h7B95, \hD543>>)],
      [y_plus_x |-> from_be_hex(<<\h1973, \h5FD7, \hF6BC, \h20A6, \hE27F, \hC76F, \hCDED, \hAA48,
                                  \h8C5C, \h3977, \h96AD, \hA358, \hBF7B, \hBB8A, \h42A9, \h75FC>>),
       y_minus_x |-> from_be_hex(<<\h11B5, \hDF18, \hA44C, \hC543, \hEFA2, \h8C8D, \hFCC8, \h4E29,
                                   \hFFEE, \hD811, \hB2E6, \hFAD0, \h1ABC, \h92AF, \h49C5, \h342E>>),
       xy2d |-> from_be_hex(<<\h0FEF, \h9111, \h91DF, \h895F, \h2503, \hA1D0, \h65A4, \h97B9,
                              \hEB84, \h8E0F, \h7F19, \h547E, \hE3AB, \h90D0, \h42C8, \h4266>>)]>>>>

\* the table with the entries of every LookupTable moved up by one place
BASEPOINT_TABLE_ROTATED ==
  [i \in 1..32 |-> [j \in 1..8 |->
     ED25519_BASEPOINT_TABLE_INNER_DOC_HIDDEN[i][(j % 8) + 1]]]

\* ED25519_BASEPOINT_TABLE
ED25519_BASEPOINT_TABLE == ED25519_BASEPOINT_TABLE_INNER_DOC_HIDDEN

\* the multiples 1, 2, 3, ... of the base point in the place of the odd ones
CONSECUTIVE_MULTIPLES_OF_BASEPOINT ==
  [k \in 1..64 |-> ED25519_BASEPOINT_TABLE_INNER_DOC_HIDDEN[1][((k - 1) % 8) + 1]]

\* AFFINE_ODD_MULTIPLES_OF_BASEPOINT: the NafLookupTable8, entry k at k + 1
AFFINE_ODD_MULTIPLES_OF_BASEPOINT ==
  <<
      [y_plus_x |-> from_be_hex(<<\h07CF, \h9D3A, \h33D4, \hBA65, \h270B, \h4898, \h643D, \h42C2,
                                  \hCF93, \h2DC6, \hFB8C, \h0E19, \h2FBC, \h93C6, \hF58C, \h3B85>>),
       y_minus_x |-> from_be_hex(<<\h44FD, \h2F92, \h98F8, \h1267, \hA5C1, \h8434, \h688F, \h8A09,
                                   \hFD39, \h9F05, \hD140, \hBEB3, \h9D10, \h3905, \hD740, \h913E>>),
       xy2d |-> from_be_hex(<<\h6F11, \h7B68, \h9F0C, \h65A8, \h5A1B, \h7DCB, \hDD43, \h598C,
                              \h26D9, \hE823, \hCCAA, \hC49E, \hABC9, \h1205, \h877A, \hAA68>>)],
      [y_plus_x |-> from_be_hex(<<\h7A16, \h4E1B, \h9A80, \hF8F4, \hC11B, \h5002, \h9F01, \h6732,
                                  \h025A, \h8430, \hE886, \h4B8A, \hAF25, \hB0A8, \h4CEE, \h9730>>),
       y_minus_x |-> from_be_hex(<<\h2AB9, \h1587, \h555B, \hDA62, \h8131, \hF31A, \h214B, \hD6BD,
                                   \h3BD3, \h53FD, \hE5C1, \hBA7D, \h5661, \h1FE8, \hA4FC, \hD265>>),
       xy2d |-> from_be_hex(<<\h5A28, \h26AF, \h12B9, \hB4C6, \hD170, \hE545, \h8CF2, \hDB4C,
                              \h5894, \h2322, \h1C35, \hDA62, \h14AE, \h933F, \h0DD0, \hD889>>)],
      [y_plus_x |-> from_be_hex(<<\h2945, \hCCF1, \h46E2, \h06EB, \hDD1B, \hEB0C, \h5ABF, \hEC44,
                                  \h8D50, \h48C3, \hC75E, \hED02, \hA212, \hBC44, \h08A5, \hBB33>>),
       y_minus_x |-> from_be_hex(<<\h154A, \h7E73, \hEB1B, \h55F3, \hE33C, \hF11C, \hB864, \hA087,
                                   \hD500, \h14D1, \h4B27, \h29B7, \h7F91, \h82C3, \hA447, \hD6BA>>),
       xy2d |-> from_be_hex(<<\h43AA, \hBE69, \h6B3B, \hB69A, \hB41B, \h670B, \h1BBD, \hA72D,
                              \h270E, \h0807, \hD0BD, \hD1FC, \hBCBB, \hDBF1, \h812A, \h8285>>)],
      [y_plus_x |-> from_be_hex(<<\h461B, \hEA69, \h283C, \h927E, \h71B2, \h5282, \h2854, \h2E49,
                                  \h7470, \h353A, \hB39D, \hC0D2, \h6B1A, \h5CD0, \h944E, \hA3BF>>),
       y_minus_x |-> from_be_hex(<<\h1D6E, \hDD5D, \h2E53, \h17E0, \h9DEA, \h764F, \h9219, \h2C3A,
                                   \h6CA0, \h2153, \h3BBA, \h23A7, \hBA6F, \h2C9A, \hAA32, \h21B1>>),
       xy2d |-> from_be_hex(<<\h7A9F, \hBB1C, \h6A0F, \h90A7, \h529C, \h41BA, \h5877, \hADF3,
                              \hB303, \h5F47, \h053E, \hA49A, \hF183, \h6DC8, \h01B8, \hB3A2>>)],
      [y_plus_x |-> from_be_hex(<<\h34B9, \hED33, \h8ADD, \h7F59, \hCEB2, \h33C9, \hC686, \hF5B5,
                                  \hA650, \h9E6F, \h51BC, \h46C5, \h9B2E, \h678A, \hA6A8, \h632F>>),
       y_minus_x |-> from_be_hex(<<\h49C0, \h5A51, \hFADC, \h9C8F, \h96CB, \hC608, \hE75E, \hB044,
                                   \h98A0, \h81B6, \hF520, \h419B, \hF36E, \h217E, \h039D, \h8064>>),
       xy2d |-> from_be_hex(<<\h73C1, \h7202, \h1B00, \h8B06, \hAAF6, \hFC29, \h93D4, \hCF16,
                              \hE2FF, \h83E8, \hA719, \hD22F, \h06B4, \hE8BF, \h9045, \hAF1B>>)],
      [y_plus_x |-> from_be_hex(<<\h4275, \hAAE2, \h546D, \h8FAF, \h113E, \h8471, \h1770, \h3406,
                                  \hE5D9, \hFECF, \h0230, \h2E27, \h2FBF, \h0084, \h8A80, \h2ADE>>),
       y_minus_x |-> from_be_hex(<<\h18AB, \h5980, \h29D5, \hC77F, \hA3A0, \h7555, \h6A8D, \hEB95,
                                   \h3ED6, \hB369, \h7708, \h8381, \h315F, \h5B02, \h4986, \h4348>>),
       xy2d |-> from_be_hex(<<\h3DC6, \h5522, \hB53D, \hF948, \h4431, \h1199, \hB51A, \h8622,
                              \h031E, \hB4A1, \h3282, \hE4A4, \hD82B, \h2CC5, \hFD60, \h89E9>>)],
      [y_plus_x |-> from_be_hex(<<\h234F, \hD7EE, \hC346, \hF241, \h537A, \h0E12, \hFB07, \hBA07,
                                  \hBF84, \hB39A, \hB5BC, \hDEDB, \hBF70, \hC222, \hA200, \h7F6D>>),
       y_minus_x |-> from_be_hex(<<\h0267, \h882D, \h1760, \h24A7, \h9D12, \hB232, \hAAAD, \h5968,
                                   \hAEFC, \hEBC9, \h9B77, \h6F6B, \h506F, \h013B, \h327F, \hBF93>>),
       xy2d |-> from_be_hex(<<\h497B, \hA6FD, \hAA09, \h7863, \hA2EF, \h37F8, \h91A7, \hE533,
                              \h2437, \hE6B1, \hDF8D, \hD471, \h5360, \hA119, \h732E, \hA378>>)],
      [y_plus_x |-> from_be_hex(<<\h61E2, \h2917, \hF12D, \hE72B, \h2DBD, \hBDFA, \hC1F2, \hD4D0,
                                  \h8648, \hC28D, \h189C, \h246D, \h24CE, \hCC03, \h13CF, \hEAA0>>),
       y_minus_x |-> from_be_hex(<<\h43B5, \hCD42, \h18D0, \h5EBF, \h7508, \h3008, \h07B2, \h5192,
                                   \hD382, \h9BA4, \h2A99, \h10D6, \h040B, \hCD86, \h468C, \hCF0B>>),
       xy2d |-> from_be_hex(<<\h511D, \h6121, \h0AE4, \hD842, \h032E, \h5A7D, \h93D6, \h4270,
                              \hEB38, \hAF4E, \h373F, \hDEEE, \h5D9A, \h762F, \h9BD0, \hB516>>)],
      [y_plus_x |-> from_be_hex(<<\h6D32, \h5924, \hDDB8, \h55E3, \hAA9B, \h3664, \h6F8F, \h1248,
                                  \hA546, \h20CD, \hC0D7, \h044F, \h92C6, \h76EF, \h950E, \h9D81>>),
       y_minus_x |-> from_be_hex(<<\h71A7, \hFE6F, \hE248, \h2810, \h39FA, \h4E27, \h2994, \h2D25,
                                   \h8A1C, \hF016, \hB592, \hEDB4, \h0813, \h8648, \h4420, \hDE87>>),
       xy2d |-> from_be_hex(<<\h4746, \hC4B6, \h559E, \hEAA9, \h72CF, \h5918, \h8377, \h8D0C,
                              \h33FD, \h1479, \hFE5F, \h2A03, \h6C71, \h82B8, \hA5C8, \hC854>>)],
      [y_plus_x |-> from_be_hex(<<\h5C9A, \h51DE, \h34FE, \h9FB7, \h4565, \h1CF7, \hB53A, \h16B5,
                                  \hDEFA, \hB227, \h6F89, \hF617, \hD377, \h7B3C, \h6DC6, \h9A2B>>),
       y_minus_x |-> from_be_hex(<<\h2196, \h6349, \h7DB5, \hE6D6, \hFF93, \h9A76, \h0672, \hA332,
                                   \h7D35, \hAEDD, \h0EFC, \hC849, \h3485, \h46C8, \h6474, \h1147>>),
       xy2d |-> from_be_hex(<<\h4804, \h503C, \h6082, \h23BB, \h09C3, \hA717, \h1014, \h2277,
                              \hFFDD, \hDAA1, \hE658, \h515B, \hF510, \hF1CF, \h79F1, \h0E67>>)],
      [y_plus_x |-> from_be_hex(<<\h5533, \h98A5, \h1650, \h696D, \h88A9, \h6ED7, \hC96E, \h0E23,
                                  \hA059, \hA0E3, \hA615, \hACAB, \hC424, \h9ED0, \h2CA3, \h7FC7>>),
       y_minus_x |-> from_be_hex(<<\h771E, \h0988, \h58DE, \h4C5E, \h5D9E, \h5CE4, \h2083, \h8A47,
                                   \hBBB4, \h0AA7, \hE99B, \h9E32, \h3B68, \h21D2, \h3A36, \hD175>>),
       xy2d |-> from_be_hex(<<\h5A5E, \hD1D6, \h8FF5, \hA611, \h477F, \h4A2D, \h9FA5, \h9508,
                              \h3ADA, \h5D79, \h8589, \h9CCB, \h9A12, \hF5D2, \h7845, \h1EDF>>)],
      [y_plus_x |-> from_be_hex(<<\h44AC, \hB897, \hD8BF, \h92F0, \h7387, \hF829, \h1E71, \h1E20,
                                  \hCF20, \h9A25, \h7E4B, \h35D8, \h1195, \h122A, \hFE15, \h0E83>>),
       y_minus_x |-> from_be_hex(<<\h019B, \h6013, \h5FEF, \hDC44, \h2865, \h3C1E, \hDA1C, \hABE9,
                                   \h392E, \h5C19, \hCADB, \h9D7E, \hBAE5, \hE0C5, \h5852, \h7359>>),
       xy2d |-> from_be_hex(<<\h150C, \h49FD, \hE6AD, \h2F92, \h506E, \h88A8, \hFC1A, \h3ED7,
                              \hC4F5, \hE64F, \h2430, \h4C16, \h1E60, \h6814, \h5E13, \h4B83>>)],
      [y_plus_x |-> from_be_hex(<<\h6B2B, \h5A07, \h5BB9, \h9922, \h10AF, \h79C4, \h25A7, \h08AD,
                                  \h5D6F, \hEF39, \h4F75, \hA651, \h8E7B, \hF295, \h0947, \h1138>>),
       y_minus_x |-> from_be_hex(<<\h78A6, \hD779, \h1E05, \hFBC1, \hFE3E, \hE356, \h0C36, \h168D,
                                   \hC83F, \h44DB, \hB871, \h4AD0, \hB849, \h863C, \h9CDC, \hA868>>),
       xy2d |-> from_be_hex(<<\h725C, \h7FFC, \h4AD5, \h5D00, \hAA2B, \h1FB1, \hD542, \hF590,
                              \hA601, \hB355, \h7417, \h48D5, \h58BF, \h704B, \h47A0, \hB976>>)],
      [y_plus_x |-> from_be_hex(<<\h794C, \hC927, \h7CB1, \hF3A3, \h23D1, \h157B, \h8B12, \h109F,
                                  \h7352, \hD511, \h02A2, \h0D34, \hE442, \h6715, \hD1CF, \h99B2>>),
       y_minus_x |-> from_be_hex(<<\h4CD5, \h4625, \hF855, \hFAE7, \hDF58, \h5D71, \h4902, \h994C,
                                   \hFE41, \h6CA4, \hED5E, \h6366, \h9180, \h2BF7, \h1CD0, \h98C0>>),
       xy2d |-> from_be_hex(<<\h7008, \h357B, \h6FCC, \h8E85, \h2AD0, \h32F1, \h0A31, \h1021,
                              \hBC9A, \hEDAD, \h32F6, \h7258, \h4AF6, \hC426, \hC2AC, \h5053>>)],
      [y_plus_x |-> from_be_hex(<<\h06EF, \h7E98, \h51AD, \h0F6A, \h8D2D, \hD5A3, \hB9AD, \h29B6,
                                  \hB8CC, \hC8FA, \h95FB, \hCCFB, \h0B88, \h6727, \h3877, \h3F01>>),
       y_minus_x |-> from_be_hex(<<\h13A9, \h2A36, \h69D6, \hD428, \hB631, \h639C, \h4853, \h6202,
                                   \h47AB, \h6463, \hD2B4, \h792B, \hD01B, \h9FBB, \h8258, \h4A34>>),
       xy2d |-> from_be_hex(<<\h3C29, \h6DDF, \h8A2A, \hF86A, \h2468, \h0F01, \hD802, \hE071,
                              \h7540, \hE41E, \h5035, \hDC5C, \hCA93, \h771C, \hC057, \h7DE5>>)],
      [y_plus_x |-> from_be_hex(<<\h7A99, \hD393, \h490C, \h77BA, \hAFF8, \h2317, \h9F53, \hD730,
                                  \hA92F, \h7BF9, \h8C8F, \hF912, \hAEAD, \h15F9, \hD914, \hA713>>),
       y_minus_x |-> from_be_hex(<<\h0A89, \h2C70, \h0747, \h717B, \hFC71, \hA37D, \hD0A1, \hAD05,
                                   \hB895, \h10C7, \h40AD, \hB91F, \hFCEB, \h4D2E, \hBB1F, \h2541>>),
       xy2d |-> from_be_hex(<<\h2867, \h62D2, \h8302, \hF7D2, \hA5A9, \h6563, \h262F, \h9CE0,
                              \h77A8, \hC841, \h57E8, \h0794, \h8F52, \hED24, \h36BD, \hA3E8>>)],
      [y_plus_x |-> from_be_hex(<<\h32F1, \hDA04, \h6A9D, \h9D3A, \h0CC1, \h92D3, \hCBC7, \hB83F,
                                  \h82E1, \h181D, \hB26B, \hAA97, \h4E78, \h3609, \h3CE3, \h5B25>>),
       y_minus_x |-> from_be_hex(<<\h7686, \hF2A3, \hD6F1, \h767A, \h154A, \h179F, \h3BBB, \h89B8,
                                   \hE498, \h6CB4, \h6747, \hBC63, \h7C55, \h8E2B, \hCE2E, \hF5BD>>),
       xy2d |-> from_be_hex(<<\h5613, \h05F8, \hA9AD, \h28A6, \h3F91, \hDC73, \hC209, \hB022,
                              \h8F11, \h9303, \h04D3, \h852B, \hAA8D, \h12A6, \h6D59, \h7C6A>>)],
      [y_plus_x |-> from_be_hex(<<\h00AA, \hEC53, \hE35D, \h4D2C, \h8313, \h1B22, \hD847, \hBA48,
                                  \hCA43, \hD543, \h4D6D, \h73E5, \h100C, \h978D, \hEC92, \hAED1>>),
       y_minus_x |-> from_be_hex(<<\h030A, \h1AEF, \h2C57, \hCC6C, \hCAF6, \h8DA7, \hD701, \h0A61,
                                   \h709D, \hE9BB, \hDB07, \h5C53, \h6722, \hCC28, \hE7B0, \hC0D5>>),
       xy2d |-> from_be_hex(<<\h20BE, \h9C1C, \h2406, \h5480, \h7821, \hDC86, \h520E, \hD23E,
                              \h0B3F, \h2980, \h2B21, \h6608, \h7BB1, \hF773, \h003A, \hD2AA>>)],
      [y_plus_x |-> from_be_hex(<<\h750A, \hB336, \h1F0A, \hC1DE, \h1C7F, \h9A81, \hC36F, \h63B5,
                                  \h5943, \hBC2D, \hF546, \hE493, \hE153, \h87D8, \h2496, \h73A6>>),
       y_minus_x |-> from_be_hex(<<\h6976, \h4C54, \h5067, \hE311, \h105D, \h639C, \hF95A, \h0D1C,
                                   \hB03B, \h3B2F, \hCBDC, \hB938, \h20E0, \hE44A, \hE202, \h5E60>>),
       xy2d |-> from_be_hex(<<\h54F9, \h6B3F, \hB707, \h5040, \hB72F, \hD15B, \hAC2E, \h2563,
                              \h6F2E, \hDA23, \hBD7F, \hCBF1, \h1E8A, \h3283, \hA2F8, \h1037>>)],
      [y_plus_x |-> from_be_hex(<<\h3D7F, \hE9C5, \h2BB7, \h539E, \h6F3D, \h9482, \h8C57, \h60F1,
                                  \h3ADD, \hA204, \h7D7D, \h724A, \h0FAD, \hF204, \h2966, \h9279>>),
       y_minus_x |-> from_be_hex(<<\h78E6, \h839F, \hBE85, \hDBF0, \hB7A8, \hA110, \hE6EC, \hE785,
                                   \h8976, \h4B9C, \hFA57, \h6479, \h177D, \hAFC6, \h16B1, \h1ECD>>),
       xy2d |-> from_be_hex(<<\h70F2, \h68F3, \h5008, \h8242, \h320F, \hF74A, \hA0E5, \h9E22,
                              \h75D0, \h5D43, \h041A, \h178A, \h7033, \h2DF7, \h37B8, \h856B>>)],
      [y_plus_x |-> from_be_hex(<<\h7C0D, \h345C, \hFAD8, \h89D9, \hE987, \h4EB7, \h1E4C, \hB006,
                                  \hF535, \hC5D1, \h60DD, \h7C19, \h6686, \h4583, \hB180, \h5F47>>),
       y_minus_x |-> from_be_hex(<<\h404E, \h56C0, \h39B8, \hC4B9, \hB31D, \hDEED, \h3552, \hB698,
                                   \h380C, \hC97E, \hE7FC, \hE117, \h2324, \h1120, \h70DC, \hF355>>),
       xy2d |-> from_be_hex(<<\h20D7, \h5476, \h2AAE, \hC777, \h5CBC, \h4152, \hB45F, \h3D44,
                              \hA036, \h6AB1, \h67E0, \hB5E1, \h591F, \h1F4B, \h8C78, \h338A>>)],
      [y_plus_x |-> from_be_hex(<<\h2B8F, \h1E46, \hF3CE, \hEC62, \hA993, \h4A7D, \h903B, \hC922,
                                  \hACE5, \h43A5, \h363C, \hBB9A, \h5E8F, \hC36F, \hC73B, \hB758>>),
       y_minus_x |-> from_be_hex(<<\h38B8, \hADA8, \h790B, \h4CE1, \hE932, \h2B07, \h5713, \h8BA9,
                                   \h84B3, \h7DF1, \hDE8C, \h956C, \h9D74, \hFEB1, \h35B9, \hF543>>),
       xy2d |-> from_be_hex(<<\h049A, \hEB32, \hCEBA, \h1953, \h1D10, \h6D8B, \h328B, \h66DA,
                              \h2B39, \h52AE, \hCB1F, \hDEAC, \hB5C0, \h4A9C, \hDF51, \hF95D>>)],
      [y_plus_x |-> from_be_hex(<<\h795E, \hE175, \h30F6, \h74FC, \h1D82, \h542B, \h396B, \h3930,
                                  \h0FEF, \h924B, \h7A67, \h25D3, \hAA50, \h7D0B, \h75FC, \h7931>>),
       y_minus_x |-> from_be_hex(<<\h51C6, \h65E0, \hC8D6, \h25FC, \hB667, \h6861, \hE14F, \h7C13,
                                   \h209C, \h5948, \h9785, \h6E40, \hD776, \h7D3C, \h63DC, \hFE7E>>),
       xy2d |-> from_be_hex(<<\h6CD1, \h9BF4, \h9DC5, \h4477, \hE6A2, \h4D0D, \hCAEE, \h4A31,
                              \h5D41, \h1F6E, \hE034, \hAFE7, \h254A, \h5B0A, \h52EC, \hBD81>>)],
      [y_plus_x |-> from_be_hex(<<\h5E01, \hB3A7, \h429E, \h43E7, \h76F6, \h627E, \h2099, \h0BAA,
                                  \h082A, \h2A88, \hB8D5, \h1B10, \h1FFE, \h6121, \h65AF, \hC386>>),
       y_minus_x |-> from_be_hex(<<\h7520, \hF3DB, \h40B2, \hE638, \h80A2, \hBAA8, \h8499, \h711E,
                                   \h571D, \h0A06, \h0B2C, \h9F85, \h7E87, \h6190, \h5217, \h9CA3>>),
       xy2d |-> from_be_hex(<<\h7109, \h2C9C, \hCEF3, \hC986, \h1A30, \h9A64, \hDF31, \h1E6E,
                              \h967B, \h6CDD, \h599E, \h94A5, \h3DB5, \h0BE3, \hD393, \h57A1>>)],
      [y_plus_x |-> from_be_hex(<<\h4173, \hA5BB, \h7137, \hABDE, \h3A4A, \hE7CB, \hC974, \h3CEB,
                                  \h03F6, \hA408, \h55B7, \hAA1E, \h856B, \hD8AC, \h7405, \h1DCF>>),
       y_minus_x |-> from_be_hex(<<\h0EA1, \h5B03, \hD025, \h7BA7, \h080B, \h4A9E, \h6681, \hE5A4,
                                   \hA2B4, \h04F4, \h3FAB, \h6B1C, \h53D8, \h523F, \h0364, \h918C>>),
       xy2d |-> from_be_hex(<<\h5FC5, \h6561, \h4A4E, \h3A67, \hF793, \h1668, \hF4B2, \hF176,
                              \h5A69, \h6E2B, \h1AFC, \h4708, \h17C5, \h6E31, \hF0F9, \h218A>>)],
      [y_plus_x |-> from_be_hex(<<\h3214, \hC740, \h9D46, \h651B, \hE3B0, \h819A, \hE592, \h3EED,
                                  \h01D5, \h950F, \h1C5C, \hD722, \h4892, \hE1E6, \h7790, \h988E>>),
       y_minus_x |-> from_be_hex(<<\h6271, \h1C41, \h4C45, \h4AA1, \h5954, \h9F03, \h310D, \hAD86,
                                   \h0FD0, \hAACC, \h54F8, \hDC8F, \h136E, \h570D, \hC46D, \h7AE5>>),
       xy2d |-> from_be_hex(<<\h5BEA, \h9407, \h3ECB, \h833C, \hD9B6, \hB8EC, \h185D, \h223C,
                              \h3BA4, \hA066, \h8A27, \h9436, \h1329, \h8274, \h0665, \h1770>>)],
      [y_plus_x |-> from_be_hex(<<\h4AD0, \h7859, \h44F1, \hBD2F, \h35DA, \h51A1, \hA211, \h7B6F,
                                  \h0067, \hBA8F, \h0543, \hE8F1, \hB470, \hCE63, \hF343, \hD2F8>>),
       y_minus_x |-> from_be_hex(<<\h3AAC, \hD5C1, \h48F6, \h1EEC, \hABFE, \h9E02, \hF697, \hB065,
                                   \hACF3, \h8B31, \h7D6E, \h579C, \h641D, \hBF09, \h12C8, \h9BE4>>),
       xy2d |-> from_be_hex(<<\h3AFF, \h0CB1, \hD902, \h853D, \h3408, \h5B2E, \hD39D, \hA88C,
                              \hDC99, \hC047, \h0731, \h6826, \h858E, \h3B34, \hC331, \h8301>>)],
      [y_plus_x |-> from_be_hex(<<\h2CCF, \h9F73, \h2BD9, \h9E7F, \h09EF, \h3378, \h8FD3, \h27C6,
                                  \h68E4, \h9C13, \h261F, \h2283, \h9226, \h430B, \hF4C5, \h3505>>),
       y_minus_x |-> from_be_hex(<<\h110E, \h7E86, \hF4CD, \h251D, \h2925, \h2E48, \hAD29, \hD5F9,
                                   \h8EE3, \h11EF, \hEDAD, \h56C9, \h87C5, \hC7EB, \h3A20, \h405E>>),
       xy2d |-> from_be_hex(<<\h05C5, \h57E0, \hB969, \h3A37, \h5317, \h2709, \hA02E, \h3BB7,
                              \h1288, \h8628, \hF0B0, \h200C, \h57C0, \hD89E, \hD603, \hF5E4>>)],
      [y_plus_x |-> from_be_hex(<<\h289F, \hEF08, \h4186, \h1205, \hB6B9, \h3F4E, \h6344, \h21FB,
                                  \h61F8, \h5BF6, \hFA0F, \hD85C, \hF776, \hBBB0, \h89C2, \h0EB0>>),
       y_minus_x |-> from_be_hex(<<\h6E15, \h4C17, \h8FE9, \h875A, \hE15B, \h7EA0, \h8BED, \h25DD,
                                   \h7A3F, \h2630, \h11F9, \hFDAE, \hD8F9, \hCE31, \h1FC9, \h7E6F>>),
       xy2d |-> from_be_hex(<<\h6AFB, \hF642, \hA95C, \hA319, \h1378, \h9765, \h753A, \h7FE7,
                              \h9B16, \hE4E7, \h8335, \hC94F, \hCF61, \h6336, \hFED6, \h9ABF>>)],
      [y_plus_x |-> from_be_hex(<<\h12C0, \h93CE, \hDB80, \h1ED9, \hDA29, \h56B6, \h90EA, \hD489,
                                  \h7D1D, \h167B, \h2B0C, \hF561, \h5DE5, \h5070, \hF913, \hA8CC>>),
       y_minus_x |-> from_be_hex(<<\h0DB4, \hB851, \hB950, \h38C4, \h7DEB, \h6ADA, \h0DAD, \h70E0,
                                   \h98FC, \h3DA4, \hB00E, \h7B9A, \h7DA8, \hDE0C, \h62F5, \hD2C1>>),
       xy2d |-> from_be_hex(<<\h33AA, \h8799, \hC663, \h5CE6, \hCEE7, \h5572, \hDAC7, \hD7FD,
                              \h0696, \h9DA0, \hA11A, \hE310, \hFC14, \h7F93, \h08B8, \h190F>>)],
      [y_plus_x |-> from_be_hex(<<\h212C, \hD0C1, \hC8D5, \h89A6, \hE226, \h2D5C, \h87CA, \h5AB6,
                                  \h6DA2, \hBA9B, \h1A0A, \h6D27, \h8348, \hF588, \hFC15, \h6CB1>>),
       y_minus_x |-> from_be_hex(<<\h233C, \h6F29, \hE8E2, \h1A86, \h6EC2, \hBFE1, \h5060, \h033C,
                                   \h78F5, \h1A89, \h67D3, \h3F1F, \hAF0F, \hF51E, \hBD08, \h5CF2>>),
       xy2d |-> from_be_hex(<<\h1DB7, \h7789, \h1191, \h4CE3, \hA70A, \h862A, \h3D3D, \h3341,
                              \h122E, \hCDF2, \h527E, \h9D28, \hD2F4, \hD510, \h7F18, \hC781>>)],
      [y_plus_x |-> from_be_hex(<<\h7AE2, \hCA8A, \h017D, \h24BE, \h15DF, \h4161, \hFD2A, \hC852,
                                  \hE2B8, \hDED4, \h19CF, \h8DA5, \hB339, \h4769, \hDD70, \h1AB6>>),
       y_minus_x |-> from_be_hex(<<\h31AD, \h97AD, \h26E2, \hADFC, \h7C74, \hF43A, \hBF79, \hA330,
                                   \h7A97, \hE2CC, \h53D5, \h0113, \hDDF3, \h5239, \h7C6B, \hC26F>>),
       xy2d |-> from_be_hex(<<\h1ED1, \hFC53, \hA662, \h2C83, \hE491, \hC14F, \h2556, \h0A64,
                              \h1E85, \h18CC, \h3F19, \hDA9D, \hB7E8, \h17ED, \h0920, \hB962>>)],
      [y_plus_x |-> from_be_hex(<<\h503D, \h664A, \h57AA, \h24AD, \h3E19, \h167B, \hBF37, \h12FB,
                                  \h7350, \h4898, \hC9BF, \h388E, \h8BFE, \h42A6, \h1C09, \h2D2D>>),
       y_minus_x |-> from_be_hex(<<\h5B12, \hB36F, \h28BC, \h0AA3, \h23DB, \h7E6D, \h0485, \hC45C,
                                   \hB382, \hDF28, \h8570, \hB7E7, \hF4B9, \hE98E, \h4D89, \hF26E>>),
       xy2d |-> from_be_hex(<<\h3690, \h6685, \hE9A1, \hF8E3, \h192A, \h023E, \h0C8E, \h8BFA,
                              \hB9BA, \h83F7, \hCF37, \hE5F2, \hCA1B, \h395B, \h90A9, \h1537>>)],
      [y_plus_x |-> from_be_hex(<<\h355D, \hCCF0, \h4805, \hC3A5, \hEB27, \hEE64, \hBE5B, \h3D39,
                                  \h2FCF, \h1DD2, \h138B, \h57E4, \h544C, \hBE3C, \h4FD8, \h781D>>),
       y_minus_x |-> from_be_hex(<<\h5B11, \h1270, \h8474, \hB19E, \h5601, \h1DC0, \hABD8, \h215B,
                                   \hA470, \h0CFA, \h31D7, \h5C7C, \h6B19, \h0DD8, \hB869, \h9E48>>),
       xy2d |-> from_be_hex(<<\h5845, \h87B2, \h25AE, \h4F65, \hB138, \hB588, \hB659, \h8196,
                              \h1FB6, \h5EE7, \h57F6, \h567F, \hCBBD, \h984D, \hCB3C, \h75DB>>)],
      [y_plus_x |-> from_be_hex(<<\h05E2, \h7BA4, \hB982, \hAC54, \h8B4F, \hFFD3, \h80B2, \h218B,
                                  \h84EB, \h616C, \hCB91, \h97C4, \h4855, \hC10F, \h66A6, \h7ED6>>),
       y_minus_x |-> from_be_hex(<<\h3D89, \h18FB, \h87D1, \h1EEF, \hDB48, \h1808, \hA980, \h5BB7,
                                   \h5435, \hD15B, \h33BC, \h2BEE, \h3393, \hA363, \hF12F, \h57A6>>),
       xy2d |-> from_be_hex(<<\h7F8F, \h3424, \hD64A, \h55DA, \h6B61, \h108E, \hEB68, \h2ACF,
                              \hE5AE, \hADB0, \hDE2A, \h1086, \h3F06, \hA67D, \h1E5A, \h864D>>)],
      [y_plus_x |-> from_be_hex(<<\h7E75, \h5CBA, \h0310, \hF265, \hAF52, \h31A4, \h7A45, \h654F,
                                  \h9548, \hED1E, \hC442, \hFDE2, \h7B1A, \h4807, \hB248, \h86AF>>),
       y_minus_x |-> from_be_hex(<<\h0CAA, \h7059, \hC323, \h56C4, \hAAFD, \hFE16, \hCE23, \hBCC3,
                                   \hEE1B, \hF0C7, \h68F0, \hF68B, \h0ED6, \h2936, \h2479, \h4ED1>>),
       xy2d |-> from_be_hex(<<\h4536, \hC2AE, \hE70B, \h3230, \hE246, \hF40C, \hFDE4, \h5959,
                              \hA64E, \h1A88, \h2696, \hF668, \h9AFC, \h4F52, \h761A, \h3023>>)],
      [y_plus_x |-> from_be_hex(<<\h6A15, \hD0F5, \hCA44, \h97B3, \hDC60, \h5FED, \h0F63, \h168B,
                                  \h9A38, \hBF74, \h6521, \h57B8, \h8CE3, \hEFF3, \h21CC, \hB9C3>>),
       y_minus_x |-> from_be_hex(<<\h7BBD, \hF804, \h1BA4, \h7471, \hFE1B, \hF852, \hFE71, \h018D,
                                   \h6EB4, \hE737, \hF02F, \hC226, \hE019, \hA302, \h599D, \hB7FA>>),
       xy2d |-> from_be_hex(<<\h55C2, \h06D4, \h035C, \hDB7A, \hFB2F, \h399A, \h3697, \h8858,
                              \hDC24, \hEAF9, \hE221, \hC4F0, \h8E0D, \hE1F1, \h09BF, \hA8D5>>)],
      [y_plus_x |-> from_be_hex(<<\h5CD6, \hB392, \h2EE7, \h1C25, \h0F99, \hDB5C, \h214A, \h59CB,
                                  \h8227, \hD19E, \h1431, \hC8E3, \h0A27, \hFAAD, \h90DE, \h7625>>),
       y_minus_x |-> from_be_hex(<<\h278F, \hC8BC, \hD74E, \h9EB8, \h599C, \h14C0, \h0D1E, \h9EFC,
                                   \h02B3, \hDB6A, \hD6CF, \h64F9, \h7153, \h8159, \hB844, \h3D37>>),
       xy2d |-> from_be_hex(<<\h4686, \h1529, \h1AB8, \h8428, \h53F4, \h309E, \hE0CD, \h142B,
                              \hE111, \h126E, \h7A37, \hA7BE, \hF03C, \hA994, \hD633, \hEBC7>>)],
      [y_plus_x |-> from_be_hex(<<\h5523, \hE2F3, \h5388, \h9485, \hF4AD, \h2153, \h18E2, \h792B,
                                  \hED22, \h29EA, \hCDFD, \h6B67, \h2C40, \h3851, \hD54C, \hEB6F>>),
       y_minus_x |-> from_be_hex(<<\h636D, \hB66A, \h5894, \hEDD3, \hDC18, \hB38F, \h13D4, \hFBCF,
                                   \hF5C5, \h06A0, \hF057, \h9F97, \h71A1, \h099C, \h54A5, \hEFD2>>),
       xy2d |-> from_be_hex(<<\h5288, \hCF65, \h559B, \h0F98, \h88F5, \hA27C, \hB3C8, \h4C35,
                              \h0F61, \h25AB, \h65A3, \hF1E2, \h9AFA, \h536E, \h7BD0, \hD4DE>>)],
      [y_plus_x |-> from_be_hex(<<\h12C7, \h0C85, \hF452, \h41D2, \h5FEE, \h4F89, \h484B, \hBAFB,
                                  \hFCB1, \hFB13, \hE557, \h0E71, \h0F92, \hB629, \hF0D9, \h881C>>),
       y_minus_x |-> from_be_hex(<<\h63F0, \h1B55, \h5A96, \h4614, \h6DD6, \hF2C6, \h0F76, \h8929,
                                   \h58FE, \hABBA, \hEA81, \h2A3F, \hB295, \hC8C5, \h0A97, \h289B>>),
       xy2d |-> from_be_hex(<<\h4371, \h6541, \h6AB6, \h2955, \h3C93, \h9F69, \hD4D5, \h3351,
                              \h6029, \h9307, \hD309, \h60CC, \h6A45, \hBDA5, \hE538, \h767F>>)],
      [y_plus_x |-> from_be_hex(<<\h46FE, \h985F, \h1B97, \h21B7, \h6B78, \h1919, \h9980, \hDD1F,
                                  \hAD81, \hBFBA, \hE4B6, \h778D, \hE1D5, \hB1FB, \hDDFD, \hAD86>>),
       y_minus_x |-> from_be_hex(<<\h3EA4, \h6DC7, \h2C2D, \hD23C, \h8465, \h234F, \h47F3, \h6475,
                                   \h5036, \hA4D0, \hF495, \h3A71, \h6130, \h0A28, \h36E6, \h4B9A>>),
       xy2d |-> from_be_hex(<<\h088B, \h0CA7, \hDF43, \h294E, \h6A0E, \h5E97, \hD89C, \h74E5,
                              \h6739, \hF401, \hFD07, \h5EEA, \h9FF5, \h0185, \h88E2, \hDFA7>>)],
      [y_plus_x |-> from_be_hex(<<\h3C75, \h5700, \hAF5E, \hE893, \hFA9F, \h0E23, \hF535, \hA3DF,
                                  \h0EBB, \h9D53, \hA8E5, \h1D94, \h1067, \h0E54, \hFEFE, \h6CC0>>),
       y_minus_x |-> from_be_hex(<<\h7D5B, \h0546, \h110E, \h1379, \hED8F, \hA1D6, \h9511, \h9B58,
                                   \h76D0, \h8EBE, \h7E43, \h6FCD, \h2644, \h4533, \h7C54, \hAA9D>>),
       xy2d |-> from_be_hex(<<\h1AE5, \hC564, \hB3A7, \h7AAD, \h6416, \h4668, \hD421, \hC0D7,
                              \hAAF8, \hFE7B, \h0AFB, \h01F3, \h789F, \h3A96, \hD7C7, \h0596>>)],
      [y_plus_x |-> from_be_hex(<<\h201A, \h6411, \h98D9, \h2663, \h4500, \hE7C0, \h0885, \hE2A4,
                                  \h13FB, \hE6D4, \h7C6A, \h5B84, \hDA09, \hAD4C, \h0302, \h594B>>),
       y_minus_x |-> from_be_hex(<<\h5D9C, \hF1E8, \h18AF, \h1786, \h0F30, \h7CE8, \h1E74, \h5D90,
                                   \h49E5, \hADC4, \hC8A5, \hB2A5, \hFD88, \hE686, \h3E70, \h8D5B>>),
       xy2d |-> from_be_hex(<<\h3AA0, \hA0C3, \h61FE, \h0B26, \h5579, \h493C, \hDC42, \h4C4B,
                              \h2BDB, \hAAAA, \h62B8, \hC41F, \h5BDA, \h1D3B, \hE2A1, \h592B>>)],
      [y_plus_x |-> from_be_hex(<<\h3E61, \h90F7, \h08B2, \h0340, \h4726, \hE9DD, \h5C77, \hA544,
                                  \hC7D0, \h12AB, \h660F, \h838D, \h941C, \h5FE5, \h08DF, \hF693>>),
       y_minus_x |-> from_be_hex(<<\h6EE3, \h09F2, \h30D1, \hA129, \hB0AA, \h755C, \h9E78, \hB330,
                                   \h8CE0, \hC102, \h5006, \h7169, \h067C, \h6E21, \hE149, \hEF2E>>),
       xy2d |-> from_be_hex(<<\h64CD, \hE983, \h64F1, \hD74B, \h6174, \h24F7, \hB0E8, \h49AD,
                              \h7A22, \h228F, \h547E, \hC209, \h3948, \hAE32, \hAC67, \hB877>>)],
      [y_plus_x |-> from_be_hex(<<\h1976, \h7CC1, \h4420, \h3007, \h2D22, \h7957, \h8795, \h3B0F,
                                  \hB8B4, \h1B10, \hC61F, \h05C8, \h42FE, \hB982, \hB66C, \h4FFA>>),
       y_minus_x |-> from_be_hex(<<\h2C41, \hA80E, \h5B45, \h3831, \h84F2, \hFDA4, \h0029, \h4FB3,
                                   \h7D38, \hF68F, \hBE1F, \h51F7, \h270F, \hD6E4, \h071F, \h6450>>),
       xy2d |-> from_be_hex(<<\h393B, \hC7B7, \h7C81, \hC3E8, \hAF0C, \hB14F, \hDACA, \h4EC4,
                              \h72EE, \hEF35, \h978E, \h184D, \h05BE, \h0FE0, \h8E9D, \hC54B>>)],
      [y_plus_x |-> from_be_hex(<<\h6EBB, \h5599, \hAC3D, \h3696, \h7BEC, \hB9F6, \h4905, \hD2B4,
                                  \h5685, \h13FA, \h38CD, \h6EC9, \hB13B, \h67A8, \h68CD, \h8C15>>),
       y_minus_x |-> from_be_hex(<<\h7C0C, \hEBBD, \h0CA4, \hEE63, \hF7B9, \h153B, \hC5C0, \hC17A,
                                   \h9F5C, \hB50D, \h883B, \h9B0A, \hE9BB, \h8645, \hB73F, \h4755>>),
       xy2d |-> from_be_hex(<<\h7CEA, \hD117, \h6A99, \h4C8C, \h3066, \h04D0, \hCFAC, \h969B,
                              \h266D, \hEBE5, \h677E, \h65FA, \h429C, \hC5DA, \h3060, \h59BD>>)],
      [y_plus_x |-> from_be_hex(<<\h7B81, \h6374, \hFE4D, \h0ADC, \hDD36, \hB61C, \h27B0, \h1208,
                                  \h472B, \h3B3D, \h7B8C, \h9150, \h621B, \h1E08, \hC64D, \hE622>>),
       y_minus_x |-> from_be_hex(<<\h32E7, \h3D7C, \h414D, \h7551, \h7FCB, \h93E1, \h232E, \hE3D3,
                                   \h1332, \h8741, \hD66C, \h12C3, \h36FE, \h4CDB, \h6856, \h4783>>),
       xy2d |-> from_be_hex(<<\h6F56, \hAE3C, \hE96F, \h0163, \h8F27, \h9C75, \hD65F, \hA414,
                              \h5C3C, \h7D0F, \h88CA, \h7358, \h5297, \h1BC1, \h0411, \h3FCC>>)],
      [y_plus_x |-> from_be_hex(<<\h2BCB, \hC96F, \hC92A, \hB0E9, \h4573, \hDB8E, \h664D, \h36BF,
                                  \h8166, \h5FA0, \hF325, \h7935, \h477A, \hA3E1, \h86F6, \hB4B9>>),
       y_minus_x |-> from_be_hex(<<\h6FF2, \h7A9F, \hEAFB, \h3D17, \h9B8D, \h37A2, \hD4F2, \hF726,
                                   \hDF93, \h6B43, \h4616, \hD65D, \h5D38, \h96ED, \h8C1E, \h9273>>),
       xy2d |-> from_be_hex(<<\h72B5, \hA5B6, \hDE28, \h48CD, \h50E0, \h0475, \hA46E, \h2C35,
                              \hF033, \hB146, \hA881, \hCE41, \h6C09, \hF73E, \h611F, \h6329>>)],
      [y_plus_x |-> from_be_hex(<<\h3485, \hA7AA, \h6FDE, \h7D08, \h6BA4, \h0318, \h8524, \h3977,
                                  \h9A1C, \h97A3, \h633F, \hA307, \h3C71, \h2C46, \h28A3, \h37C3>>),
       y_minus_x |-> from_be_hex(<<\h61AA, \h1160, \hD97B, \h7167, \hFC51, \h6B39, \h5D91, \h401D,
                                   \hF8DD, \h0999, \h4BEF, \h14AB, \hF136, \h9774, \hED68, \hE720>>),
       xy2d |-> from_be_hex(<<\h2C6C, \hE050, \h3EE8, \hD142, \hB373, \hECF1, \h68E0, \h884C,
                              \h374B, \hCB75, \hD586, \h2D97, \h2534, \h8A7B, \h7F55, \h128E>>)],
      [y_plus_x |-> from_be_hex(<<\h0F8C, \h2B53, \h7833, \h93A7, \h0EE0, \hA9B8, \h0312, \h8A43,
                                  \h340C, \hECE1, \hE021, \hE31E, \h894F, \h17E6, \h7646, \h9B1A>>),
       y_minus_x |-> from_be_hex(<<\h0E77, \hAD1D, \h9264, \h97A9, \hE4EE, \hE56C, \h9AF6, \h921A,
                                   \h5E96, \hCCDC, \h292A, \h44F2, \h8D82, \hDFB1, \h9C63, \h2889>>),
       xy2d |-> from_be_hex(<<\h4CC1, \hE54C, \h7258, \hDDF5, \h78E0, \h02EE, \hB89D, \hAD4F,
                              \hDD40, \hE090, \hA80D, \h19DE, \h2F1A, \h301D, \hF2DB, \h5C75>>)],
      [y_plus_x |-> from_be_hex(<<\h7294, \hF223, \h7A32, \hDE77, \h8645, \hC39F, \hFE34, \h13F9,
                                  \h031E, \hA794, \h7980, \hBD38, \hB89B, \hE1D8, \h6B3A, \hE19C>>),
       y_minus_x |-> from_be_hex(<<\h62EF, \h3FDC, \hE751, \h42E4, \hF5C9, \hAEA7, \h40A9, \hBB66,
                                   \hF426, \h1F78, \h644E, \h48FB, \hF3FC, \hC066, \h7543, \h638E>>),
       xy2d |-> from_be_hex(<<\h1928, \hC87D, \h1566, \h62A4, \hBDA9, \hCE37, \h4F02, \h65DE,
                              \h9ED1, \hDD9E, \h3869, \hF243, \h6E58, \h8017, \hF77D, \h3EFD>>)],
      [y_plus_x |-> from_be_hex(<<\h4AE0, \hEC1D, \h4499, \hFA94, \h5755, \hA860, \h75CE, \h291B,
                                  \h2DA9, \hA2CA, \hB597, \h58C6, \h4A38, \h47D5, \h6608, \h7229>>),
       y_minus_x |-> from_be_hex(<<\h77DB, \h4177, \h4458, \hF630, \h4204, \h74ED, \h08BD, \h2C99,
                                   \h6FEB, \h7FBD, \h9644, \hF5F5, \h1B0C, \h955A, \hB57E, \h2130>>),
       xy2d |-> from_be_hex(<<\h17F1, \hB346, \h1DA3, \h170E, \hAEBF, \hA497, \h93D0, \hBFC4,
                              \h866B, \h1D98, \h0CE0, \h7DD5, \h83D6, \hCB9B, \hA2BE, \h7DA7>>)],
      [y_plus_x |-> from_be_hex(<<\h78A8, \h2C43, \hF443, \hD24D, \hABC7, \h58E7, \h9441, \h7B00,
                                  \hBAC7, \h5D4E, \hE3E4, \hE79A, \h09A1, \h6B3D, \h036C, \h2886>>),
       y_minus_x |-> from_be_hex(<<\h3D9B, \h99A1, \h3ADA, \h9626, \hD176, \h2D7B, \h4576, \hA735,
                                   \h2CA3, \h611A, \h7B67, \h10E5, \h8E4C, \h199B, \h3403, \hCE52>>),
       xy2d |-> from_be_hex(<<\h0B49, \h208B, \hD81B, \hB390, \h4539, \hA75A, \hF7C4, \hAC7F,
                              \hEFD1, \h39EB, \h4469, \h474E, \h056B, \h8112, \h7026, \h75C4>>)],
      [y_plus_x |-> from_be_hex(<<\h3E40, \hA64D, \hA2D5, \h1448, \hC163, \h9398, \h6F00, \h9808,
                                  \hEAC8, \hED71, \h6E98, \hEED6, \h03FD, \h50FB, \h0A0D, \h0782>>),
       y_minus_x |-> from_be_hex(<<\h157E, \hE7B2, \hE1F2, \h8521, \h87AC, \h12FC, \hF368, \hD80E,
                                   \h7B3D, \h1775, \hC495, \h84C1, \h35BA, \hDCB3, \h2D28, \h7241>>),
       xy2d |-> from_be_hex(<<\h5A27, \h7115, \hC55F, \hBEB4, \h1F5B, \hAEF6, \hF12E, \h3F95,
                              \h2522, \hD09B, \hC73F, \hFCBD, \h97F5, \hA52E, \h9DCA, \h709F>>)],
      [y_plus_x |-> from_be_hex(<<\h0F4E, \h1918, \h92DD, \h3D73, \hE363, \h6E50, \h4E12, \h2E6E,
                                  \h273C, \h7B38, \h6FDE, \h31B2, \h7B40, \hD921, \hE585, \h4C55>>),
       y_minus_x |-> from_be_hex(<<\h4689, \hB02A, \hB17D, \hFEEE, \h4F38, \h2D7D, \h586D, \hB8F0,
                                   \hC87E, \hC77F, \hD587, \hA7C2, \hAB12, \h3015, \h3283, \h00CC>>),
       xy2d |-> from_be_hex(<<\h3B24, \h32EB, \hC9ED, \hD627, \h86F4, \h9394, \h5F70, \h8794,
                              \hE1F4, \h6058, \hD922, \hB5BD, \hC3BD, \h1C12, \hEC41, \h32ED>>)],
      [y_plus_x |-> from_be_hex(<<\h361F, \hD133, \h0328, \hD0C1, \hB422, \h2B62, \h3836, \hC62F,
                                  \hA42B, \h5A08, \h6F39, \h8C28, \h1700, \h8997, \h81C7, \hD8EF>>),
       y_minus_x |-> from_be_hex(<<\h6C55, \hC1F2, \hAB2D, \hBBB9, \h8DFF, \h3409, \hEDC0, \h963D,
                                   \h0DD9, \h3738, \h31C1, \h7C95, \hBBBE, \hCCC2, \hB78C, \h2E59>>),
       xy2d |-> from_be_hex(<<\h3CD8, \h45A9, \h27B2, \hC486, \hB159, \h6816, \hD4FA, \h0444,
                              \hB897, \h3911, \h77C5, \h0F44, \hD22B, \h0C81, \h6515, \h9986>>)],
      [y_plus_x |-> from_be_hex(<<\h45F9, \h98AC, \h7247, \hF2AD, \h556A, \hB0A2, \h481B, \h8E75,
                                  \hFBEA, \h3365, \hE8F8, \h2FF5, \h12F5, \h06D7, \h2C19, \h51DF>>),
       y_minus_x |-> from_be_hex(<<\h3612, \h1E8A, \h0DA9, \h1AD1, \h0F56, \h6B56, \hD20E, \h46DC,
                                   \h4072, \h2A7E, \h78D7, \h5EB7, \h1D17, \h15AD, \hDF6F, \hD3B0>>),
       xy2d |-> from_be_hex(<<\h23B0, \h86CF, \h066D, \h531B, \hFF46, \hC2D5, \h7254, \h4CCE,
                              \hD6E1, \h434C, \h4669, \h5337, \hA40B, \h0728, \hC55D, \h3ECD>>)],
      [y_plus_x |-> from_be_hex(<<\h16C5, \hFA19, \h014F, \h1615, \h44FE, \h4535, \h012C, \hBC39,
                                  \hBD7C, \hA409, \h8634, \hBA31, \h8D66, \h6080, \hB4BD, \hD58F>>),
       y_minus_x |-> from_be_hex(<<\h01EB, \hB538, \h8C6E, \h8A74, \hEA33, \h8509, \h2CD2, \h8F32,
                                   \hB1D4, \h5142, \h37C1, \h6905, \hC36B, \h5118, \hEA05, \h195E>>),
       xy2d |-> from_be_hex(<<\h4864, \hEF18, \h1847, \h3050, \hAFFD, \h29C3, \h5696, \h0710,
                              \hC98F, \hF8C5, \hCB9C, \hE895, \h0F45, \h416E, \hE772, \hF53B>>)],
      [y_plus_x |-> from_be_hex(<<\h26C0, \h3AED, \h7F6B, \hC250, \hE66F, \h3E9B, \h0415, \h3EF4,
                                  \h864E, \hEB9B, \hB91C, \h3428, \hCD0D, \hA83A, \h0BD0, \hB830>>),
       y_minus_x |-> from_be_hex(<<\h2A7A, \hDC0C, \h34DB, \hAF6C, \h5CC0, \h4B88, \h3B62, \h3C0F,
                                   \h3447, \hC7AB, \h2068, \hD38E, \hF817, \hC332, \h9763, \h9AB3>>),
       xy2d |-> from_be_hex(<<\h78B5, \h1699, \h59E1, \hD754, \h90D9, \h4A7B, \hB989, \hA43C,
                              \h3A9E, \h8960, \h4829, \hA96D, \h961E, \h7A2F, \h581C, \h7DCE>>)],
      [y_plus_x |-> from_be_hex(<<\h457E, \hC022, \h4BCD, \h21B4, \h1DCB, \h8A16, \h5586, \hA836,
                                  \hE6FE, \h953A, \h574D, \hD32B, \hF95C, \hC85A, \h5769, \hCC40>>),
       y_minus_x |-> from_be_hex(<<\h0231, \h4BC9, \h0371, \hE709, \h2757, \h2A35, \h488E, \h711F,
                                   \h7506, \h1507, \hFCE9, \hD465, \h10F9, \h8254, \hDF5D, \h180D>>),
       xy2d |-> from_be_hex(<<\h7957, \h2C53, \h4FCF, \h0A49, \hBB8B, \h7936, \hEA84, \hCEFA,
                              \h16BB, \hB31D, \hFB55, \h3AD3, \h79E8, \hAEFE, \h8F26, \h908A>>)],
      [y_plus_x |-> from_be_hex(<<\h7890, \hC0B6, \hE7F1, \h9A1C, \h1493, \hF6AB, \h9688, \hC9A4,
                                  \h5F37, \h2623, \h9064, \h04C4, \h343B, \h4300, \hE074, \h9597>>),
       y_minus_x |-> from_be_hex(<<\h70DD, \hF8D9, \h8B60, \hEF3F, \h0433, \h3788, \h0D96, \hEA04,
                                   \hBB0A, \h0DBA, \hB92C, \hC1B9, \h239D, \hB23C, \hA35B, \h2D6F>>),
       xy2d |-> from_be_hex(<<\h4576, \h9691, \hE89A, \h70AA, \h2B58, \hE231, \hECB4, \h8485,
                              \hA3B3, \h0398, \h5AF8, \h169B, \hF491, \h40B7, \hFDD7, \h5DC4>>)],
      [y_plus_x |-> from_be_hex(<<\h2EC0, \hF706, \hB05C, \h7C78, \h8BAE, \h7410, \h5667, \h9D90,
                                  \h885C, \hFED9, \hE9B9, \h1B6B, \h390E, \h3DDC, \h5BA6, \h43AD>>),
       y_minus_x |-> from_be_hex(<<\h10B7, \h4232, \hF01C, \h1D82, \h0223, \h5DEF, \hDD55, \hE17D,
                                   \h47A9, \hCC35, \hEC02, \hEB9B, \h54E3, \hE305, \h345B, \h2DDB>>),
       xy2d |-> from_be_hex(<<\h5D6F, \hA9D2, \h5A3F, \h46A7, \h9050, \hB66E, \h2A4E, \h1470,
                              \h894D, \hEE1F, \hBE3D, \h0C7C, \hFC3A, \h1694, \h608F, \h59D8>>)],
      [y_plus_x |-> from_be_hex(<<\h574F, \hA418, \h87C9, \hE71C, \h064C, \hCBF6, \h189F, \h9CAD,
                                  \hA66C, \hED07, \h9DF0, \h0E65, \hAC2C, \h5AFE, \hB2A3, \hA6DD>>),
       y_minus_x |-> from_be_hex(<<\h645E, \h704F, \h775F, \h697A, \h797F, \hF5F7, \hF57D, \h2646,
                                   \h2A69, \hCC01, \h2F22, \h3E52, \h46DF, \h4185, \hE46E, \h6CBB>>),
       xy2d |-> from_be_hex(<<\h7420, \hE574, \hDCAA, \hB932, \hF235, \h5982, \h294E, \h1511,
                              \h0F3A, \h73ED, \h122E, \hE7D8, \hC92D, \h29DA, \hDE89, \h1EFA>>)],
      [y_plus_x |-> from_be_hex(<<\h2BA6, \h0FA9, \hC3CD, \hC075, \h454B, \h33B0, \h93C4, \h54A5,
                                  \hC87B, \h61E6, \h9B42, \h1C10, \hF83E, \h6E3F, \h9423, \h4B1C>>),
       y_minus_x |-> from_be_hex(<<\h44EF, \h4632, \hB581, \hB3D3, \h28AE, \h3901, \h8D46, \hE4A6,
                                   \h0FE6, \h202F, \h46F9, \hD39D, \hF766, \hA138, \hA034, \h513C>>),
       xy2d |-> from_be_hex(<<\h7054, \h899C, \h44B5, \hF3CF, \h56F5, \h11D9, \hC007, \h1C97,
                              \h45DA, \h3BAC, \h6522, \h4A25, \hA3D6, \h491C, \h21D3, \h64C9>>)]>>

---------------------------------------------------------------------------
(* constants.rs and scalar.rs: arithmetic modulo L                         *)

\* 2^256 mod L
TWO_POW_TWO_FIFTY_SIX ==
  from_be_hex(<<\h0FFF, \hFFFF, \hFFFF, \hFFFF, \hFFFF, \hFFFF, \hFFFF, \hFFFE,
                \hC6EF, \h5BF4, \h737D, \hCF70, \hD6EC, \h3174, \h8D98, \h951D>>)

\* the residue of 2^256 in the place of that of 2^261
R_OF_TWO_POW_256 == TWO_POW_TWO_FIFTY_SIX

\* constants::R, 2^261 mod L
R ==
  from_be_hex(<<\h0FFF, \hFFFF, \hFFFF, \hFFFF, \hFFFF, \hFFFF, \hFFFF, \hFFD6,
                \h56EB, \h3C98, \hB3BD, \hF026, \h334C, \h2E60, \h714D, \hF9ED>>)

\* multiplicative inverse of R mod L
R_INVERSE ==
  from_be_hex(<<\h064E, \hDB63, \h7937, \hF48C, \h1B0A, \h73AA, \h1C7F, \hD1B5,
                \hFD93, \h4BE6, \hD1D6, \hD67A, \hC742, \h1B8F, \h04C7, \h27E2>>)

\* ScalarR0::MINUS_ONE, the scalar -1 mod L
ScalarR0_MINUS_ONE ==
  from_be_hex(<<\h1000, \h0000, \h0000, \h0000, \h0000, \h0000, \h0000, \h0000,
                \h14DE, \hF9DE, \hA2F7, \h9CD6, \h5812, \h631A, \h5CF5, \hD3EC>>)

\* a value returned without any assertion on the way
returned(v) == [val |-> v, panic |-> FALSE]

\* a multiply without the assertion: whatever the host returned
modmul_u256_unchecked(a, b, modulus, h) ==
  returned(modmul_u256_denormalized(a, b, modulus, h))

\* risc0::modmul_u256(a, b, modulus): the denormalized multiply followed by the
\* assertion that its result is below the modulus: [val, panic]
modmul_u256(a, b, modulus, h) ==
  Bind(modmul_u256_denormalized(a, b, modulus, h), LAMBDA r :
    [val |-> r, panic |-> ~ct_lt(r, modulus)])

\* U256::wrapping_add
wrapping_add(a, b) == SubSeq(add_u256(a, b), 1, 32)

\* an addition modulo 2^256, with no reduction by p
add_mod_unreduced(a, b, p) == wrapping_add(a, b)

\* U256::add_mod(a, b, p): a + b with its carry, minus p, and p added back
\* when that subtraction borrowed past the carry
add_mod(a, b, p) ==
  Bind(add_u256(a, b), LAMBDA s :
    Bind(sbb_u256(SubSeq(s, 1, 32), p), LAMBDA w :
      LET mask == IF s[33] - w[2] < 0 THEN 1 ELSE 0
      IN  IF mask = 1 THEN wrapping_add(w[1], p) ELSE w[1]))

\* a subtraction modulo 2^256, with p never added back
sub_mod_wrapping(a, b, p) == wrapping_sub(a, b)

\* U256::sub_mod(a, b, p): a - b, and p added back when it borrowed
sub_mod(a, b, p) ==
  Bind(sbb_u256(a, b), LAMBDA w :
    IF w[2] = 1 THEN wrapping_add(w[1], p) ELSE w[1])

\* ScalarR0::from_bytes
ScalarR0_from_bytes(bytes) == returned(from_le_bytes(bytes))

\* a wide reduction that adds the low half without reducing it
from_bytes_wide_raw_lo(bytes, hs) ==
  Bind(modmul_u256(from_le_bytes(SubSeq(bytes, 33, 64)), TWO_POW_TWO_FIFTY_SIX, L, hs[1]),
       LAMBDA hi_shifted_left_256 :
    IF hi_shifted_left_256.panic THEN hi_shifted_left_256
    ELSE returned(add_mod(hi_shifted_left_256.val, from_le_bytes(SubSeq(bytes, 1, 32)), L)))

\* ScalarR0::from_bytes_wide, of 64 bytes; hs holds the host's choices
from_bytes_wide(bytes, hs) ==
  LET lo == from_le_bytes(SubSeq(bytes, 1, 32))
      hi == from_le_bytes(SubSeq(bytes, 33, 64))
  IN  Bind(modmul_u256(hi, TWO_POW_TWO_FIFTY_SIX, L, hs[1]), LAMBDA hi_shifted_left_256 :
        IF hi_shifted_left_256.panic THEN hi_shifted_left_256
        ELSE Bind(modmul_u256(lo, U256_ONE, L, hs[2]), LAMBDA lo_reduced :
               IF lo_reduced.panic THEN lo_reduced
               ELSE returned(add_mod(hi_shifted_left_256.val, lo_reduced.val, L))))

\* an encoding of the stored value as it is, without reducing it
ScalarR0_as_bytes_unreduced(slf, h) == returned(to_le_bytes(slf))

\* ScalarR0::as_bytes: [val: the bytes, panic]
ScalarR0_as_bytes(slf, h) ==
  Bind(modmul_u256(slf, U256_ONE, L, h), LAMBDA v :
    [val |-> to_le_bytes(v.val), panic |-> v.panic])

\* ScalarR0::add
ScalarR0_add(a, b) == returned(add_mod(a, b, L))

\* ScalarR0::sub
ScalarR0_sub(a, b) == returned(sub_mod(a, b, L))

\* a negation that multiplies by one: reduces, keeps the sign
ScalarR0_negate_by_one(a, h) == modmul_u256(a, U256_ONE, L, h)

\* ScalarR0::negate
ScalarR0_negate(a, h) == modmul_u256(a, ScalarR0_MINUS_ONE, L, h)

\* a reduce that returns its argument as it is
reduce_identity(a, h) == returned(a)

\* ScalarR0::reduce
reduce(a, h) == modmul_u256(a, U256_ONE, L, h)

\* ScalarR0::mul
ScalarR0_mul(a, b, h) == modmul_u256(a, b, L, h)

\* ScalarR0::square
ScalarR0_square(slf, h) == modmul_u256(slf, slf, L, h)

\* a Montgomery multiplication without the division by R
montgomery_mul_plain(a, b, hs) == modmul_u256(a, b, L, hs[2])

\* ScalarR0::montgomery_mul
montgomery_mul(a, b, hs) ==
  Bind(modmul_u256_denormalized(a, b, L, hs[1]), LAMBDA ab :
    modmul_u256(ab, R_INVERSE, L, hs[2]))

\* ScalarR0::montgomery_square
montgomery_square(slf, hs) ==
  Bind(modmul_u256_denormalized(slf, slf, L, hs[1]), LAMBDA squared :
    modmul_u256(squared, R_INVERSE, L, hs[2]))

\* ScalarR0::as_montgomery
as_montgomery(slf, h) == modmul_u256(slf, R, L, h)

\* a conversion out of Montgomery form that multiplies by R
from_montgomery_by_R(slf, h) == modmul_u256(slf, R, L, h)

\* ScalarR0::from_montgomery
from_montgomery(slf, h) == modmul_u256(slf, R_INVERSE, L, h)

\* scalar.rs, mod test: the known values
X ==
  from_be_hex(<<\h0FFF, \hFFFF, \hFFFF, \hFFFF, \hFFFF, \hFFFF, \hFFFF, \hFFFF,
                \hEB21, \h0621, \h5D08, \h6329, \hA7ED, \h9CE5, \hA30A, \h2C12>>)
XX ==
  from_be_hex(<<\h06CE, \h6504, \h6DF0, \hC268, \hF73B, \hB1CF, \h485F, \hD6F9,
                \hF38A, \h3153, \h1640, \hFFD0, \hEC01, \h6680, \h2021, \h7559>>)
XX_MONT ==
  from_be_hex(<<\h030E, \hDB63, \h7937, \hF48C, \h1B0A, \h73AA, \h1C7F, \hD1B5,
                \hF92C, \h4331, \hDB76, \h9B65, \h90AE, \h3AA7, \h752B, \h4D2E>>)
Y ==
  from_be_hex(<<\h0D96, \h018B, \hB825, \h5FFF, \hCC11, \hFAD1, \h3433, \hD2BA,
                \hF067, \h2BBF, \h9D75, \hE1EC, \hDACB, \h7507, \h1E14, \h58FA>>)
XY ==
  from_be_hex(<<\h0000, \h0000, \h0000, \h0000, \h0000, \h0000, \h0000, \h0000,
                \h1BA6, \h34ED, \h50D7, \h1D84, \hE02E, \hE6D7, \h6BA7, \h632D>>)
XY_MONT ==
  from_be_hex(<<\h0BDC, \h1CE0, \h0134, \h0933, \hF1F2, \h48B4, \hF790, \h0DE0,
                \h430C, \h6909, \h4F0A, \h867B, \hD78C, \h9C23, \h277B, \h51E1>>)
A ==
  from_be_hex(<<\h0532, \hDA9F, \hAB8C, \h6B3F, \h6E4F, \hEC4C, \h4A4A, \hA782,
                \hAAE3, \hEE1B, \hC3D2, \hA67C, \h0C45, \h236C, \h07B3, \hBE89>>)
B ==
  from_be_hex(<<\h0ACD, \h2560, \h5473, \h94C0, \h91B0, \h13B3, \hB5B5, \h587D,
                \h69FB, \h0BC2, \hDF24, \hF65A, \h4BCD, \h3FAE, \h5542, \h1564>>)
AB ==
  from_be_hex(<<\h0A65, \hB53F, \h5718, \hD67E, \hDC9F, \hD898, \h9495, \h4F05,
                \h55C7, \hDC37, \h87A5, \h4CF8, \h188A, \h46D8, \h0F67, \h7D12>>)
C ==
  from_be_hex(<<\h0399, \h411B, \h7C30, \h9A3D, \hCEEC, \h73D2, \h17F5, \hBE65,
                \hD00E, \h1BA7, \h6885, \h9347, \hA406, \h11E3, \h449C, \h0F00>>)

---------------------------------------------------------------------------
(* The inputs of a run                                                     *)

MaxSteps == 2   \* operations in the longest run
MaxK == 2       \* largest k handed to pow2k
MaxSlack == 1   \* most multiples of the modulus an uncooperative host adds

\* x + n for a small n, modulo 2^256
add_small(x, n) ==
  SubSeq(Propagate([j \in 1..32 |-> IF j = 1 THEN x[1] + n ELSE x[j]], 1, 0), 1, 32)

\* 32 bytes with bit 255 set
set_top(data) == [i \in 1..32 |-> IF i = 32 THEN (data[32] % 128) + 128 ELSE data[i]]

U256_MAX == [i \in 1..32 |-> 255]
TWO_POW_255 == [i \in 1..32 |-> IF i = 32 THEN 128 ELSE 0]

\* field elements a run of b operations starts from: the longer the run, the
\* fewer the values
FieldSamples(b) ==
  IF b <= 1 THEN FieldConstants
  ELSE IF b = 2 THEN {TWO, MINUS_ONE, EDWARDS_D, SQRT_M1}
  ELSE {MINUS_ONE, EDWARDS_D}

\* byte arrays a run of b operations may decode: around p, up to 2^255 - 1,
\* each with bit 255 clear and set
ByteSamples(b) ==
  LET low == IF b <= 1
             THEN {add_small(P, i) : i \in 0..18}
                    \cup {ZERO, ONE, MINUS_ONE, EDWARDS_D, SQRT_M1, add_small(ZERO, 18)}
             ELSE IF b = 2 THEN {ZERO, MINUS_ONE, P, add_small(P, 18), EDWARDS_D}
             ELSE {MINUS_ONE}
  IN  low \cup {set_top(d) : d \in low}

\* arbitrary 256-bit values, as the crate can build with FieldElementR0(U256)
RawSamples ==
  {ONE, MINUS_ONE, P, add_small(P, 1), add_small(P, 18), TWO_POW_255, U256_MAX}

Hosts == {"cooperative", "denormalizing"}

\* the host's choices for the n multiplies of one operation
HostChoices(n) ==
  IF host = "cooperative" THEN {[i \in 1..n |-> 0]} ELSE [1..n -> 0..MaxSlack]

\* no table is being read
NoCursor == [walk |-> "none"]

Init ==
  /\ op = "init" /\ prev = "init" /\ lhs = ZERO /\ arg = 0 /\ out = <<>>
  /\ carry7 = 0 /\ borrow = 0 /\ panicked = FALSE
  /\ debug_assertions = FALSE /\ cursor = NoCursor
  /\ \/ /\ origin = "constants" /\ host = "cooperative"
        /\ budget \in 1..MaxSteps
        /\ \/ /\ self \in FieldSamples(budget) /\ rhs \in FieldSamples(budget)
              /\ input = ZERO
           \/ /\ self = ZERO /\ rhs = ZERO
              /\ input \in ByteSamples(budget)
     \/ /\ origin = "raw" /\ host \in Hosts
        /\ budget = 1
        /\ self \in RawSamples /\ rhs \in RawSamples
        /\ input = ZERO

---------------------------------------------------------------------------
(* One action per operation of FieldElementR0                              *)

Ready == ~panicked /\ budget > 0

\* what every operation does to the bookkeeping
Done(name, a) ==
  /\ op' = name /\ prev' = op /\ lhs' = self /\ arg' = a
  /\ budget' = budget - 1
  /\ UNCHANGED <<rhs, host, origin, debug_assertions, cursor>>

\* &a + &b, a += &b
Add ==
  /\ Ready
  /\ \E r \in {add_assign(self, rhs)} :
       /\ self' = r.val /\ carry7' = r.carry7 /\ borrow' = r.borrow
       /\ panicked' = r.panic
  /\ out' = <<>> /\ UNCHANGED input
  /\ Done("add", 0)

\* &a - &b, a -= &b
Sub ==
  /\ Ready
  /\ \E hs \in HostChoices(1) : \E r \in {sub_assign(self, rhs, hs[1])} :
       /\ self' = r.val /\ carry7' = r.carry7 /\ borrow' = r.borrow
       /\ panicked' = r.panic
  /\ out' = <<>> /\ UNCHANGED input
  /\ Done("sub", 0)

\* &a * &b, a *= &b
Mul ==
  /\ Ready
  /\ \E hs \in HostChoices(1) : self' = mul_assign(self, rhs, hs[1])
  /\ out' = <<>> /\ UNCHANGED <<input, carry7, borrow, panicked>>
  /\ Done("mul", 0)

\* -&a, a.negate()
Neg ==
  /\ Ready
  /\ \E hs \in HostChoices(1) : self' = neg(self, hs[1])
  /\ out' = <<>> /\ UNCHANGED <<input, carry7, borrow, panicked>>
  /\ Done("neg", 0)

\* FieldElementR0::conditional_select(&a, &b, choice)
Select ==
  /\ Ready
  /\ \E choice \in {0, 1} :
       /\ self' = conditional_select(self, rhs, choice)
       /\ Done("conditional_select", choice)
  /\ out' = <<>> /\ UNCHANGED <<input, carry7, borrow, panicked>>

\* a.square()
Square ==
  /\ Ready
  /\ \E hs \in HostChoices(1) : self' = square(self, hs[1])
  /\ out' = <<>> /\ UNCHANGED <<input, carry7, borrow, panicked>>
  /\ Done("square", 0)

\* a.square2()
Square2 ==
  /\ Ready
  /\ \E hs \in HostChoices(2) : self' = square2(self, hs)
  /\ out' = <<>> /\ UNCHANGED <<input, carry7, borrow, panicked>>
  /\ Done("square2", 0)

\* a.pow2k(k)
Pow2k ==
  /\ Ready
  /\ \E k \in 1..MaxK : \E hs \in HostChoices(k) :
       /\ self' = pow2k(self, k, hs)
       /\ Done("pow2k", k)
  /\ out' = <<>> /\ UNCHANGED <<input, carry7, borrow, panicked>>

\* FieldElementR0::from_bytes(&data), of the bytes the run was handed or of
\* the bytes as_bytes has just returned
FromBytes ==
  /\ Ready
  /\ \E data \in {input} \cup (IF out = <<>> THEN {} ELSE {out}) :
     \E hs \in HostChoices(1) :
       /\ self' = from_bytes(data, hs[1])
       /\ input' = data
  /\ out' = <<>> /\ UNCHANGED <<carry7, borrow, panicked>>
  /\ Done("from_bytes", 0)

\* a.as_bytes()
AsBytes ==
  /\ Ready
  /\ \E r \in {as_bytes(self)} :
       /\ panicked' = r.panic
       /\ out' = r.bytes
  /\ UNCHANGED <<self, input, carry7, borrow>>
  /\ Done("as_bytes", 0)

Next ==
  \/ Add \/ Sub \/ Mul \/ Neg \/ Select \/ Square \/ Square2 \/ Pow2k
  \/ FromBytes \/ AsBytes

Spec == Init /\ [][Next]_vars

---------------------------------------------------------------------------
(* The integers the properties speak about: values modulo p computed by    *)
(* comparison and subtraction, and by 2^256 = 38 (mod p), with none of the *)
(* limb chains or reduction tables of the code above.                      *)

\* a < b for two byte tuples of one length, from the most significant byte
RECURSIVE LessFrom(_, _, _)
LessFrom(a, b, i) ==
  IF i = 0 THEN FALSE
  ELSE IF a[i] # b[i] THEN a[i] < b[i]
  ELSE LessFrom(a, b, i - 1)

Less(a, b) == LessFrom(a, b, Len(a))

\* x is canonical: in [0, p)
InField(x) == Less(x, P)

\* a - b for a >= b
Diff(a, b) == SubSeq(Propagate([j \in 1..Len(a) |-> a[j] - b[j]], 1, 0), 1, Len(a))

\* x mod p for a 256-bit x
RECURSIVE Reduce(_)
Reduce(x) == IF Less(x, P) THEN x ELSE Bind(Diff(x, P), LAMBDA d : Reduce(d))

ModP(x) == Bind(x, LAMBDA v : Reduce(v))

\* (a + b) mod p for a, b in [0, p)
AddModP(a, b) ==
  Bind(add_u256(a, b), LAMBDA s :
    IF Less(s, P \o <<0>>) THEN SubSeq(s, 1, 32)
    ELSE SubSeq(Diff(s, P \o <<0>>), 1, 32))

\* (a - b) mod p for a, b in [0, p)
SubModP(a, b) == IF Less(a, b) THEN Diff(P, Diff(b, a)) ELSE Diff(a, b)

\* (p - x) mod p for x in [0, p)
NegModP(x) == IF x = ZERO THEN ZERO ELSE Diff(P, x)

\* (a * b) mod p for any 256-bit a, b: the upper half of the product folds
\* onto the lower half with weight 38
MulModP(a, b) ==
  Bind(<<ModP(a), ModP(b)>>, LAMBDA ab : Bind(wide_mul(ab[1], ab[2]), LAMBDA x :
    Bind(Propagate([j \in 1..32 |-> x[j] + 38 * x[32 + j]], 1, 0), LAMBDA f :
      Bind(Propagate([j \in 1..32 |-> IF j = 1 THEN f[1] + 38 * f[33] ELSE f[j]], 1, 0),
           LAMBDA g :
        ModP(IF g[33] = 0 THEN SubSeq(g, 1, 32)
             ELSE add_small(SubSeq(g, 1, 32), 38))))))

\* acc * x^n mod p, one multiplication by x at a time
RECURSIVE TimesPower(_, _, _)
TimesPower(acc, x, n) ==
  IF n = 0 THEN acc ELSE Bind(MulModP(acc, x), LAMBDA m : TimesPower(m, x, n - 1))

\* x^(2^k) mod p
PowModP(x, k) == TimesPower(ModP(x), x, 2 ^ k - 1)

\* ((little-endian integer of data) mod 2^255) mod p
Decode(data) == ModP([i \in 1..32 |-> IF i = 32 THEN data[32] % 128 ELSE data[i]])

\* data with bit 255 flipped
flip_top(data) == [i \in 1..32 |-> IF i = 32 THEN (data[32] + 128) % 256 ELSE data[i]]

\* n squarings of x by a cooperative host, one after the other
RECURSIVE Squarings(_, _)
Squarings(x, n) ==
  IF n = 0 THEN x ELSE Bind(Squarings(x, n - 1), LAMBDA z : square(z, 0))

\* a cooperative host's answers to n multiplies
Cooperative(n) == [i \in 1..n |-> 0]

---------------------------------------------------------------------------
(* Properties of the field operations. Each is stated on the state an      *)
(* operation leaves: lhs and rhs are its operands, self its result.        *)

\* C1: addition is exact on canonical inputs. For a, b in [0, p), add_assign
\* leaves exactly (a + b) mod p, a value in [0, p); the assertion on carry7
\* does not fail, and the final subtraction of the correction does not borrow.
C1_AddExact ==
  (op = "add" /\ InField(lhs) /\ InField(rhs)) =>
    /\ ~panicked
    /\ carry7 <= 1
    /\ borrow = 0
    /\ self = AddModP(lhs, rhs)
    /\ InField(self)

\* an addition of canonical operands that wrapped past p to a non-zero sum
C1_Witness ==
  /\ op = "add" /\ InField(lhs) /\ InField(rhs)
  /\ carry7 = 1 /\ self # ZERO /\ lhs # ZERO /\ rhs # ZERO

\* C2: subtraction is addition of the negation. For canonical a, b and a host
\* returning reduced products, sub(a, b) = add(a, negate(b)) = (a - b) mod p,
\* in [0, p); sub(a, a) = ZERO and sub(ZERO, b) = negate(b).
C2_SubIsAddNegate ==
  (op = "sub" /\ host = "cooperative" /\ InField(lhs) /\ InField(rhs)) =>
    /\ ~panicked
    /\ Bind(negate(rhs, 0), LAMBDA n :
              /\ self = add_assign(lhs, n).val
              /\ (lhs = ZERO => self = n))
    /\ self = SubModP(lhs, rhs)
    /\ InField(self)
    /\ (lhs = rhs => self = ZERO)

\* a subtraction of a larger canonical value from a smaller non-zero one
C2_Witness ==
  /\ op = "sub" /\ host = "cooperative" /\ InField(lhs) /\ InField(rhs)
  /\ Less(lhs, rhs) /\ lhs # ZERO

\* C3: negation is the additive inverse. For canonical x and a host returning
\* reduced products, negate(x) = x * (p - 1) mod p = (p - x) mod p, so that
\* negate(ZERO) is ZERO and not p, and add(x, negate(x)) is ZERO.
C3_NegateInverse ==
  (op = "neg" /\ host = "cooperative" /\ InField(lhs)) =>
    /\ MINUS_ONE = Diff(P, ONE)
    /\ self = MulModP(lhs, Diff(P, ONE))
    /\ self = NegModP(lhs)
    /\ (lhs = ZERO => self = ZERO)
    /\ add_assign(lhs, self).val = ZERO
    /\ ~add_assign(lhs, self).panic

\* a negation of a canonical non-zero value
C3_Witness ==
  /\ op = "neg" /\ host = "cooperative" /\ InField(lhs)
  /\ lhs # ZERO /\ self # lhs /\ self # ZERO

\* C4: for all a, b, whatever the host adds, mul(a, b) is congruent to a * b
\* modulo p and to mul(b, a); with a host returning reduced products, mul is
\* commutative, its result is in [0, p), and mul(x, ONE) = x for canonical x.
C4_MulCongruent ==
  (op = "mul") =>
    /\ ModP(self) = MulModP(lhs, rhs)
    /\ \A h \in 0..MaxSlack : ModP(mul_assign(rhs, lhs, h)) = ModP(self)
    /\ (host = "cooperative") =>
         /\ self = mul_assign(rhs, lhs, 0)
         /\ InField(self)
         /\ (rhs = ONE /\ InField(lhs)) => self = lhs

\* a multiplication of a canonical value other than 0 and 1 by ONE
C4_Witness ==
  /\ op = "mul" /\ host = "cooperative" /\ rhs = ONE /\ InField(lhs)
  /\ lhs # ZERO /\ lhs # ONE /\ self = lhs

\* C5: squaring agrees with multiplication. For every x, square(x) = mul(x, x),
\* and square2(x) = mul(TWO, square(x)) = add(square(x), square(x)), which is
\* 2 * x^2 mod p (host returning reduced products; congruent modulo p whatever
\* the host adds).
C5_SquareIsMul ==
  /\ (op = "square") =>
       /\ ModP(self) = MulModP(lhs, lhs)
       /\ (host = "cooperative") => (self = mul_assign(lhs, lhs, 0) /\ InField(self))
  /\ (op = "square2") =>
       /\ Bind(MulModP(lhs, lhs), LAMBDA sq : ModP(self) = MulModP(TWO, sq))
       /\ (host = "cooperative") =>
            /\ InField(self)
            /\ Bind(square(lhs, 0), LAMBDA sq :
                  Bind(add_assign(sq, sq), LAMBDA sum :
                    /\ self = mul_assign(TWO, sq, 0)
                    /\ self = sum.val
                    /\ ~sum.panic))

\* a square2 whose doubling wraps past p
C5_Witness ==
  /\ op = "square2" /\ host = "cooperative" /\ self # ZERO
  /\ Bind(square(lhs, 0), LAMBDA sq : add_assign(sq, sq).carry7 = 1)

\* C6: for every x and k > 0, pow2k(x, k) is k squarings in sequence and equals
\* x^(2^k) mod p: pow2k(x, 1) = square(x) and pow2k(x, k + 1) =
\* square(pow2k(x, k)) (host returning reduced products; congruent modulo p
\* whatever the host adds).
C6_Pow2kSquarings ==
  (op = "pow2k") =>
    /\ arg > 0
    /\ ModP(self) = PowModP(lhs, arg)
    /\ (host = "cooperative") =>
         /\ self = Squarings(lhs, arg)
         /\ InField(self)
         /\ (arg = 1 => self = square(lhs, 0))
         /\ pow2k(lhs, arg + 1, Cooperative(arg + 1)) = square(self, 0)

\* a pow2k of more than one squaring that moved the value
C6_Witness ==
  /\ op = "pow2k" /\ host = "cooperative" /\ arg > 1
  /\ self # lhs /\ self # square(lhs, 0)

\* C7: from_bytes always succeeds and returns ((the little-endian integer of
\* the 32 bytes) mod 2^255) mod p: bit 255 is ignored, so the input with that
\* bit flipped gives the same element, and a value v in [p, 2^255) gives the
\* element of v - p, one of 0 .. 18 (host returning reduced products;
\* congruent modulo p whatever the host adds).
C7_FromBytes ==
  (op = "from_bytes") =>
    /\ ~panicked
    /\ ModP(self) = Decode(input)
    /\ (host = "cooperative") =>
         /\ self = Decode(input)
         /\ InField(self)
         /\ self = from_bytes(flip_top(input), 0)
         /\ (input[32] < 128 /\ ~Less(input, P)) =>
              /\ self = from_bytes(Diff(input, P), 0)
              /\ self = Diff(input, P)
              /\ Less(self, add_small(ZERO, 19))

\* a decoding of 2^255 - 1 with bit 255 set: the last of the 19 values
C7_Witness ==
  /\ op = "from_bytes" /\ host = "cooperative"
  /\ input = U256_MAX /\ self = add_small(ZERO, 18)

\* C8: the byte round trip. For every 32-byte array b, from_bytes(b).as_bytes()
\* returns without aborting the little-endian bytes of (b with its top bit
\* cleared) mod p, which are b itself exactly when b as an integer is < p;
\* and from_bytes(x.as_bytes()) = x for every canonical x (host returning
\* reduced products).
C8_ByteRoundTrip ==
  /\ (op = "as_bytes" /\ prev = "from_bytes" /\ host = "cooperative") =>
       /\ ~panicked
       /\ out = Decode(input)
       /\ (out = input) <=> Less(input, P)
  /\ (op = "from_bytes" /\ prev = "as_bytes" /\ host = "cooperative"
        /\ input = lhs) =>
       /\ InField(lhs)
       /\ self = lhs

\* bytes of a value >= p, top bit set, decoded and encoded again
C8_Witness ==
  /\ op = "as_bytes" /\ prev = "from_bytes" /\ host = "cooperative"
  /\ input[32] >= 128 /\ ~Less(Decode(input), add_small(ZERO, 18))
  /\ out # <<>> /\ out # input

\* C9: as_bytes is fatal on non-canonical values. It returns the 32
\* little-endian bytes of the stored value, leaving the element unchanged, if
\* and only if that value is < p; for a value >= p it aborts by assertion and
\* yields no bytes, and it never reduces the value.
C9_AsBytesFatal ==
  (op = "as_bytes") =>
    /\ panicked <=> ~Less(lhs, P)
    /\ ~panicked => out = lhs
    /\ panicked => out = <<>>
    /\ self = lhs

\* as_bytes of the stored value p: the assertion failed
C9_Witness ==
  /\ op = "as_bytes" /\ panicked /\ self = P /\ out = <<>>

---------------------------------------------------------------------------
(* The integers modulo the group order, for the properties of scalar.rs:   *)
(* the order is built from its decimal definition, and a product is        *)
(* reduced by 2^256 = -16 * 27742317777372353535851937790883648493 (mod L) *)
(* on signed digits, with none of the reduction tables of the code above.  *)

\* the decimal digits of 27742317777372353535851937790883648493
ORDER_TAIL_DIGITS ==
  <<2, 7, 7, 4, 2, 3, 1, 7, 7, 7, 7, 3, 7, 2, 3, 5, 3, 5, 3, 5, 8, 5, 1, 9, 3, 7, 7, 9, 0, 8, 8, 3, 6, 4, 8, 4, 9, 3>>

\* the number with the given decimal digits, most significant first
RECURSIVE FromDecimal(_, _, _)
FromDecimal(digits, i, acc) ==
  IF i > Len(digits) THEN acc
  ELSE Bind(Propagate([j \in 1..32 |-> 10 * acc[j] + (IF j = 1 THEN digits[i] ELSE 0)],
                      1, 0), LAMBDA t :
         FromDecimal(digits, i + 1, SubSeq(t, 1, 32)))

ORDER_TAIL == FromDecimal(ORDER_TAIL_DIGITS, 1, U256_ZERO)

\* 2^252 + 27742317777372353535851937790883648493
GroupOrder == [j \in 1..32 |-> IF j = 32 THEN ORDER_TAIL[32] + 16 ELSE ORDER_TAIL[j]]

\* 16 * 27742317777372353535851937790883648493 = 16 L - 2^256, of 17 bytes
K256 == SubSeq(Propagate([j \in 1..32 |-> 16 * ORDER_TAIL[j]], 1, 0), 1, 32)

\* column j of K256 times the signed digits h, where hp is h behind 16 zeros
KCol(hp, j) ==
  K256[1] * hp[j + 16] + K256[2] * hp[j + 15] + K256[3] * hp[j + 14] +
  K256[4] * hp[j + 13] + K256[5] * hp[j + 12] + K256[6] * hp[j + 11] +
  K256[7] * hp[j + 10] + K256[8] * hp[j + 9] + K256[9] * hp[j + 8] +
  K256[10] * hp[j + 7] + K256[11] * hp[j + 6] + K256[12] * hp[j + 5] +
  K256[13] * hp[j + 4] + K256[14] * hp[j + 3] + K256[15] * hp[j + 2] +
  K256[16] * hp[j + 1] + K256[17] * hp[j + 0]

\* the value y + s * 256^Len(y) brought into [0, 2^256) modulo the order: the
\* digits above 256 bits, times K256, are subtracted from the 256 bits below
RECURSIVE FoldL(_, _)
FoldL(y, s) ==
  IF Len(y) = 32 /\ s = 0 THEN y
  ELSE IF Len(y) = 32 /\ s < 0
  THEN Bind(Propagate([j \in 1..32 |-> y[j] + GroupOrder[j]], 1, 0), LAMBDA t :
         FoldL(SubSeq(t, 1, 32), s + t[33]))
  ELSE Bind(Zeros(16) \o SubSeq(y, 33, Len(y)) \o <<s>> \o Zeros(32), LAMBDA hp :
         Bind(IF Len(y) - 15 > 32 THEN Len(y) - 15 ELSE 32, LAMBDA m :
           Bind(Propagate([j \in 1..m |-> (IF j <= 32 THEN y[j] ELSE 0) - KCol(hp, j)],
                          1, 0), LAMBDA t :
             FoldL(SubSeq(t, 1, m), t[m + 1]))))

\* y mod L for a 256-bit y
RECURSIVE ReduceL(_)
ReduceL(y) ==
  IF Less(y, GroupOrder) THEN y
  ELSE Bind(IF y[32] \div 16 > 1 THEN (y[32] \div 16) - 1 ELSE 1, LAMBDA q :
         Bind(Propagate([j \in 1..32 |-> y[j] - q * GroupOrder[j]], 1, 0), LAMBDA t :
           ReduceL(SubSeq(t, 1, 32))))

ModL(x) == Bind(x, LAMBDA v : ReduceL(v))

\* x mod L for a 512-bit x of 64 bytes
WideModL(x) == Bind(FoldL(x, 0), LAMBDA y : ReduceL(y))

\* (a * b) mod L for any 256-bit a, b
MulModL(a, b) == Bind(wide_mul(a, b), LAMBDA x : WideModL(x))

\* x is a reduced scalar: in [0, L)
InOrder(x) == Less(x, GroupOrder)

\* (a + b) mod L for a, b in [0, L)
AddModL(a, b) ==
  Bind(add_u256(a, b), LAMBDA t :
    IF Less(t, GroupOrder \o <<0>>) THEN SubSeq(t, 1, 32)
    ELSE SubSeq(Diff(t, GroupOrder \o <<0>>), 1, 32))

\* (a - b) mod L for a, b in [0, L)
SubModL(a, b) == IF Less(a, b) THEN Diff(GroupOrder, Diff(b, a)) ELSE Diff(a, b)

\* (L - x) mod L for x in [0, L)
NegModL(x) == IF x = U256_ZERO THEN U256_ZERO ELSE Diff(GroupOrder, x)

\* 2^n mod L for n < 512
PowerOfTwoModL(n) ==
  WideModL([j \in 1..64 |-> IF j = (n \div 8) + 1 THEN 2 ^ (n % 8) ELSE 0])

\* 2^256 mod L and 2^261 mod L
TWO_POW_256_MOD_L == PowerOfTwoModL(256)
TWO_POW_261_MOD_L == PowerOfTwoModL(261)

---------------------------------------------------------------------------
(* The scalar engine: one action per operation of ScalarR0. self and rhs   *)
(* are the operands a and b, arg is the value self held two operations     *)
(* ago, input the bytes handed to from_bytes (32) or from_bytes_wide (64). *)

\* scalars a run of b operations starts from: any U256 is a ScalarR0
ScalarSamples(b) ==
  IF b <= 1
  THEN {U256_ZERO, U256_ONE, ScalarR0_MINUS_ONE, L, add_small(L, 1), X, Y, A, B,
        R, R_INVERSE, TWO_POW_255, U256_MAX}
  ELSE IF b = 2 THEN {X, Y, U256_MAX}
  ELSE {X}

\* 64 bytes: the low half lo under the high half hi
wide(lo, hi) == lo \o hi

\* byte arrays a run of b operations may decode
WideSamples(b) ==
  IF b <= 1
  THEN {wide(lo, hi) : lo \in {U256_ZERO, ScalarR0_MINUS_ONE, L, U256_MAX, X},
                       hi \in {U256_ZERO, U256_ONE, ScalarR0_MINUS_ONE, L, U256_MAX, Y}}
  ELSE IF b = 2
  THEN {wide(U256_MAX, U256_MAX), wide(L, U256_ZERO), wide(X, U256_ONE)}
  ELSE {wide(U256_MAX, U256_MAX)}

ScalarInit ==
  /\ op = "init" /\ prev = "init" /\ lhs = U256_ZERO /\ arg = U256_ZERO
  /\ out = <<>> /\ carry7 = 0 /\ borrow = 0 /\ panicked = FALSE
  /\ origin = "scalar" /\ host \in Hosts
  /\ debug_assertions = FALSE /\ cursor = NoCursor
  /\ budget \in 1..MaxSteps
  /\ \/ /\ self \in ScalarSamples(budget) /\ rhs \in ScalarSamples(budget)
        /\ input = wide(U256_ZERO, U256_ZERO)
     \/ /\ self = U256_ZERO /\ rhs = U256_ZERO
        /\ input \in WideSamples(budget)

\* what every scalar operation does: r is its [val, panic]
ScalarDone(name, r) ==
  /\ self' = IF r.panic THEN self ELSE r.val
  /\ panicked' = r.panic
  /\ op' = name /\ prev' = op /\ lhs' = self /\ arg' = lhs
  /\ budget' = budget - 1
  /\ out' = <<>>
  /\ UNCHANGED <<rhs, host, origin, carry7, borrow, debug_assertions, cursor>>

\* ScalarR0::from_bytes(&bytes), of the (low) 32 bytes the run was handed or
\* of the bytes as_bytes has just returned
ScalarFromBytes ==
  /\ Ready
  /\ \E data \in {SubSeq(input, 1, 32)} \cup (IF out = <<>> THEN {} ELSE {out}) :
       /\ ScalarDone("from_bytes", ScalarR0_from_bytes(data))
       /\ input' = data

\* ScalarR0::from_bytes_wide(&bytes)
ScalarFromBytesWide ==
  /\ Ready /\ Len(input) = 64
  /\ \E hs \in HostChoices(2) : \E r \in {from_bytes_wide(input, hs)} :
       ScalarDone("from_bytes_wide", r)
  /\ UNCHANGED input

\* a.as_bytes()
ScalarAsBytes ==
  /\ Ready
  /\ \E hs \in HostChoices(1) : \E r \in {ScalarR0_as_bytes(self, hs[1])} :
       /\ panicked' = r.panic
       /\ out' = IF r.panic THEN <<>> ELSE r.val
  /\ op' = "as_bytes" /\ prev' = op /\ lhs' = self /\ arg' = lhs
  /\ budget' = budget - 1
  /\ UNCHANGED <<self, rhs, host, origin, carry7, borrow, input, debug_assertions,
               cursor>>

\* ScalarR0::add(&a, &b)
ScalarAdd ==
  /\ Ready
  /\ \E r \in {ScalarR0_add(self, rhs)} : ScalarDone("add", r)
  /\ UNCHANGED input

\* ScalarR0::sub(&a, &b)
ScalarSub ==
  /\ Ready
  /\ \E r \in {ScalarR0_sub(self, rhs)} : ScalarDone("sub", r)
  /\ UNCHANGED input

\* ScalarR0::negate(&a)
ScalarNegate ==
  /\ Ready
  /\ \E hs \in HostChoices(1) : \E r \in {ScalarR0_negate(self, hs[1])} :
       ScalarDone("negate", r)
  /\ UNCHANGED input

\* ScalarR0::reduce(&a)
ScalarReduce ==
  /\ Ready
  /\ \E hs \in HostChoices(1) : \E r \in {reduce(self, hs[1])} :
       ScalarDone("reduce", r)
  /\ UNCHANGED input

\* ScalarR0::mul(&a, &b)
ScalarMul ==
  /\ Ready
  /\ \E hs \in HostChoices(1) : \E r \in {ScalarR0_mul(self, rhs, hs[1])} :
       ScalarDone("mul", r)
  /\ UNCHANGED input

\* a.square()
ScalarSquare ==
  /\ Ready
  /\ \E hs \in HostChoices(1) : \E r \in {ScalarR0_square(self, hs[1])} :
       ScalarDone("square", r)
  /\ UNCHANGED input

\* ScalarR0::montgomery_mul(&a, &b)
MontgomeryMul ==
  /\ Ready
  /\ \E hs \in HostChoices(2) : \E r \in {montgomery_mul(self, rhs, hs)} :
       ScalarDone("montgomery_mul", r)
  /\ UNCHANGED input

\* a.montgomery_square()
MontgomerySquare ==
  /\ Ready
  /\ \E hs \in HostChoices(2) : \E r \in {montgomery_square(self, hs)} :
       ScalarDone("montgomery_square", r)
  /\ UNCHANGED input

\* a.as_montgomery()
AsMontgomery ==
  /\ Ready
  /\ \E hs \in HostChoices(1) : \E r \in {as_montgomery(self, hs[1])} :
       ScalarDone("as_montgomery", r)
  /\ UNCHANGED input

\* a.from_montgomery()
FromMontgomery ==
  /\ Ready
  /\ \E hs \in HostChoices(1) : \E r \in {from_montgomery(self, hs[1])} :
       ScalarDone("from_montgomery", r)
  /\ UNCHANGED input

ScalarNext ==
  \/ ScalarFromBytes \/ ScalarFromBytesWide \/ ScalarAsBytes
  \/ ScalarAdd \/ ScalarSub \/ ScalarNegate \/ ScalarReduce
  \/ ScalarMul \/ ScalarSquare
  \/ MontgomeryMul \/ MontgomerySquare \/ AsMontgomery \/ FromMontgomery

ScalarSpec == ScalarInit /\ [][ScalarNext]_vars

---------------------------------------------------------------------------
(* Properties of the scalar operations, on the states of ScalarSpec. An    *)
(* operation whose multiply the host left unreduced has aborted (panicked) *)
(* and returned nothing.                                                   *)

\* C11: scalar add and sub are exact on reduced inputs. For a, b in [0, L),
\* add(a, b) = (a + b) mod L and sub(a, b) = (a - b) mod L, both in [0, L);
\* add(a, L - a) = 0 for a # 0 (as A + B = 0 and A - B = AB of the tests).
C11_ScalarAddSub ==
  (origin = "scalar" /\ InOrder(lhs) /\ InOrder(rhs)) =>
    /\ (op = "add") =>
         /\ ~panicked
         /\ self = AddModL(lhs, rhs)
         /\ InOrder(self)
         /\ (lhs # U256_ZERO /\ rhs = Diff(GroupOrder, lhs)) => self = U256_ZERO
         /\ (lhs = A /\ rhs = B) => self = U256_ZERO
    /\ (op = "sub") =>
         /\ ~panicked
         /\ self = SubModL(lhs, rhs)
         /\ InOrder(self)
         /\ (lhs = A /\ rhs = B) => self = AB

\* the addition A + B of the tests: B is L - A
C11_Witness ==
  /\ origin = "scalar" /\ op = "add" /\ lhs = A /\ rhs = B
  /\ rhs = Diff(GroupOrder, lhs) /\ self = U256_ZERO

\* C12: scalar mul, square and negate are exact and fully reduced for every
\* 256-bit input, reduced or not: mul(a, b) = a * b mod L, square(a) =
\* mul(a, a), negate(a) = mul(a, MINUS_ONE) = (L - (a mod L)) mod L, each in
\* [0, L), so that add(reduce(a), negate(a)) = 0; none aborts when the host
\* returns reduced products.
C12_ScalarMulSquareNegate ==
  (origin = "scalar" /\ op \in {"mul", "square", "negate"}) =>
    /\ (host = "cooperative") => ~panicked
    /\ (~panicked /\ op = "mul") =>
         /\ self = MulModL(lhs, rhs)
         /\ InOrder(self)
         /\ (lhs = X /\ rhs = X) => self = XX
         /\ (lhs = X /\ rhs = Y) => self = XY
    /\ (~panicked /\ op = "square") =>
         /\ self = ScalarR0_mul(lhs, lhs, 0).val
         /\ self = MulModL(lhs, lhs)
         /\ InOrder(self)
         /\ (lhs = X) => self = XX
    /\ (~panicked /\ op = "negate") =>
         /\ self = ScalarR0_mul(lhs, ScalarR0_MINUS_ONE, 0).val
         /\ self = NegModL(ModL(lhs))
         /\ InOrder(self)
         /\ Bind(reduce(lhs, 0), LAMBDA red :
              ScalarR0_add(red.val, self) = returned(U256_ZERO))

\* a negation of a value that is not reduced
C12_Witness ==
  /\ origin = "scalar" /\ op = "negate" /\ ~panicked
  /\ ~InOrder(lhs) /\ self # U256_ZERO

\* C13: reduce is an idempotent normalisation. For every 256-bit a, reduce(a)
\* = a mod L, in [0, L); reduce(reduce(a)) = reduce(a); reduce(a) = a whenever
\* a < L.
C13_ReduceIdempotent ==
  (origin = "scalar" /\ op = "reduce") =>
    /\ (host = "cooperative") => ~panicked
    /\ ~panicked =>
         /\ self = ModL(lhs)
         /\ InOrder(self)
         /\ reduce(self, 0) = returned(self)
         /\ InOrder(lhs) => self = lhs
         /\ (prev = "reduce") => self = lhs

\* a second reduce, of the result of reducing a value that was not reduced
C13_Witness ==
  /\ origin = "scalar" /\ op = "reduce" /\ prev = "reduce" /\ ~panicked
  /\ ~InOrder(arg) /\ lhs = ModL(arg) /\ self = lhs

\* C14: the scalar byte round trip is canonical. from_bytes stores the 256-bit
\* little-endian value unreduced, clearing no bit; for every 32-byte array b,
\* from_bytes(b).as_bytes() is the little-endian encoding of b mod L; what
\* as_bytes returns decodes to a value < L, and from_bytes then as_bytes of it
\* returns it unchanged.
C14_ScalarByteRoundTrip ==
  (origin = "scalar") =>
    /\ (op = "from_bytes") => (~panicked /\ self = input)
    /\ (op = "as_bytes") =>
         /\ (host = "cooperative") => ~panicked
         /\ panicked => out = <<>>
         /\ ~panicked =>
              /\ out = ModL(lhs)
              /\ self = lhs
              /\ InOrder(ScalarR0_from_bytes(out).val)
              /\ ScalarR0_as_bytes(ScalarR0_from_bytes(out).val, 0) = returned(out)
              /\ (prev = "from_bytes") => out = ModL(input)

\* 32 bytes of 0xFF decoded, stored as 2^256 - 1, and encoded reduced
C14_Witness ==
  /\ origin = "scalar" /\ op = "as_bytes" /\ prev = "from_bytes" /\ ~panicked
  /\ input = U256_MAX /\ self = U256_MAX /\ out # input /\ InOrder(out)

\* the 512-bit value hi * 2^256 + lo modulo L, as the sum of hi times
\* (2^256 mod L) and lo, each modulo L
SplitModL(lo, hi) ==
  Bind(MulModL(hi, TWO_POW_256_MOD_L), LAMBDA h : AddModL(h, ModL(lo)))

\* C15: wide reduction. For every 64-byte array, from_bytes_wide returns the
\* 512-bit little-endian integer mod L, in [0, L), as ((hi * (2^256 mod L))
\* mod L + (lo mod L)) mod L; both operands of add_mod are < L, so its
\* precondition lhs + rhs < 2L holds; for 64 bytes of 0xFF the result is
\* (2^512 - 1) mod L, the value C of the tests.
C15_WideReduction ==
  (origin = "scalar" /\ op = "from_bytes_wide") =>
    /\ (host = "cooperative") => ~panicked
    /\ ~panicked =>
         /\ self = WideModL(input)
         /\ InOrder(self)
         /\ self = SplitModL(SubSeq(input, 1, 32), SubSeq(input, 33, 64))
         /\ Bind(modmul_u256(SubSeq(input, 33, 64), TWO_POW_TWO_FIFTY_SIX, L, 0).val,
                 LAMBDA hi_part :
              Bind(modmul_u256(SubSeq(input, 1, 32), U256_ONE, L, 0).val,
                   LAMBDA lo_part :
                /\ InOrder(hi_part) /\ InOrder(lo_part)
                /\ Less(add_u256(hi_part, lo_part),
                        add_u256(GroupOrder, GroupOrder))
                /\ self = add_mod(hi_part, lo_part, L)))
         /\ (input = wide(U256_MAX, U256_MAX)) => self = C

\* the wide reduction of 64 bytes of 0xFF
C15_Witness ==
  /\ origin = "scalar" /\ op = "from_bytes_wide" /\ ~panicked
  /\ input = wide(U256_MAX, U256_MAX) /\ self = C

\* C16: the Montgomery round trip. For every 256-bit a,
\* from_montgomery(as_montgomery(a)) = reduce(a) and
\* as_montgomery(from_montgomery(a)) = reduce(a).
C16_MontgomeryRoundTrip ==
  (origin = "scalar" /\ ~panicked) =>
    /\ (op = "as_montgomery") =>
         /\ from_montgomery(self, 0) = reduce(lhs, 0)
         /\ from_montgomery(self, 0).val = ModL(lhs)
    /\ (op = "from_montgomery") =>
         /\ as_montgomery(self, 0) = reduce(lhs, 0)
         /\ as_montgomery(self, 0).val = ModL(lhs)
    /\ (op = "from_montgomery" /\ prev = "as_montgomery") =>
         (self = reduce(arg, 0).val /\ self = ModL(arg))
    /\ (op = "as_montgomery" /\ prev = "from_montgomery") =>
         (self = reduce(arg, 0).val /\ self = ModL(arg))

\* a value that is not reduced, put into Montgomery form and taken out again
C16_Witness ==
  /\ origin = "scalar" /\ op = "from_montgomery" /\ prev = "as_montgomery"
  /\ ~panicked /\ arg = U256_MAX /\ self # arg /\ self = ModL(arg)

\* C17: Montgomery multiplication agrees with standard multiplication. For
\* scalars a, b in standard form, from_montgomery(montgomery_mul(
\* as_montgomery(a), as_montgomery(b))) = mul(a, b), and the product stays in
\* Montgomery form: montgomery_mul(as_montgomery(a), as_montgomery(b)) =
\* as_montgomery(mul(a, b)).
C17_MontgomeryMulAgrees ==
  (origin = "scalar" /\ ~panicked) =>
    /\ (op = "mul") =>
         Bind(as_montgomery(lhs, 0).val, LAMBDA am :
           Bind(as_montgomery(rhs, 0).val, LAMBDA bm :
             Bind(montgomery_mul(am, bm, Cooperative(2)), LAMBDA product :
               /\ ~product.panic
               /\ from_montgomery(product.val, 0) = returned(self)
               /\ product = as_montgomery(self, 0))))
    /\ (op = "montgomery_mul" /\ prev = "as_montgomery") =>
         Bind(from_montgomery(rhs, 0).val, LAMBDA b :
           /\ as_montgomery(b, 0).val = ModL(rhs)
           /\ from_montgomery(self, 0) = ScalarR0_mul(arg, b, 0)
           /\ self = as_montgomery(ScalarR0_mul(arg, b, 0).val, 0).val)

\* the product X * Y of the tests
C17_Witness ==
  /\ origin = "scalar" /\ op = "mul" /\ ~panicked
  /\ lhs = X /\ rhs = Y /\ self = XY

\* C18: for all 256-bit a, b, montgomery_mul(a, b) = a * b * R^-1 mod L with
\* R = 2^261, fully reduced to [0, L) whatever multiple of L the denormalized
\* multiply left in the intermediate product; montgomery_square(a) =
\* montgomery_mul(a, a); montgomery_mul does not abort when the host returns
\* reduced products.
C18_MontgomeryMul ==
  (origin = "scalar" /\ op \in {"montgomery_mul", "montgomery_square"}) =>
    /\ (host = "cooperative") => ~panicked
    /\ (~panicked /\ op = "montgomery_mul") =>
         /\ InOrder(self)
         /\ MulModL(self, TWO_POW_261_MOD_L) = MulModL(lhs, rhs)
         /\ \A h \in 0..MaxSlack : montgomery_mul(lhs, rhs, <<h, 0>>) = returned(self)
         /\ (lhs = X /\ rhs = X) => self = XX_MONT
         /\ (lhs = X /\ rhs = Y) => self = XY_MONT
    /\ (~panicked /\ op = "montgomery_square") =>
         /\ InOrder(self)
         /\ MulModL(self, TWO_POW_261_MOD_L) = MulModL(lhs, lhs)
         /\ \A h \in 0..MaxSlack : montgomery_mul(lhs, lhs, <<h, 0>>) = returned(self)
         /\ (lhs = X) => self = XX_MONT

\* the Montgomery product of X and Y of the tests, returned by a host that
\* may leave products unreduced
C18_Witness ==
  /\ origin = "scalar" /\ op = "montgomery_mul" /\ host = "denormalizing"
  /\ ~panicked /\ lhs = X /\ rhs = Y /\ self = XY_MONT

\* R_INVERSE * R mod L
R_TIMES_R_INVERSE == MulModL(R_INVERSE, R)

\* C19: the scalar-field constants are mutually consistent. constants::L =
\* 2^252 + 27742317777372353535851937790883648493; constants::R = 2^261 mod L;
\* R_INVERSE * R = 1 (mod L); TWO_POW_TWO_FIFTY_SIX = 2^256 mod L;
\* ScalarR0::MINUS_ONE = L - 1; and R, R_INVERSE, TWO_POW_TWO_FIFTY_SIX,
\* MINUS_ONE are all < L.
C19_ScalarConstants ==
  (origin = "scalar") =>
    /\ L = GroupOrder
    /\ R = TWO_POW_261_MOD_L
    /\ R_TIMES_R_INVERSE = U256_ONE
    /\ TWO_POW_TWO_FIFTY_SIX = TWO_POW_256_MOD_L
    /\ ScalarR0_MINUS_ONE = Diff(GroupOrder, U256_ONE)
    /\ InOrder(R) /\ InOrder(R_INVERSE) /\ InOrder(TWO_POW_TWO_FIFTY_SIX)
    /\ InOrder(ScalarR0_MINUS_ONE)

\* the constants at work: ONE put into Montgomery form is R, and comes back
C19_Witness ==
  /\ origin = "scalar" /\ op = "as_montgomery" /\ ~panicked
  /\ lhs = U256_ONE /\ self = R
  /\ from_montgomery(self, 0) = returned(U256_ONE)

\* the small integers of the defining relations
N4 == FromDecimal(<<4>>, 1, U256_ZERO)
N19 == FromDecimal(<<1, 9>>, 1, U256_ZERO)
N121665 == FromDecimal(<<1, 2, 1, 6, 6, 5>>, 1, U256_ZERO)
N121666 == FromDecimal(<<1, 2, 1, 6, 6, 6>>, 1, U256_ZERO)
N486662 == FromDecimal(<<4, 8, 6, 6, 6, 2>>, 1, U256_ZERO)
N486664 == FromDecimal(<<4, 8, 6, 6, 6, 4>>, 1, U256_ZERO)

\* the defining relations of the field constants modulo p, with d = EDWARDS_D
\* and a = -1
FieldConstantRelations ==
  /\ P = Diff(TWO_POW_255, N19)
  /\ MulModP(N121666, EDWARDS_D) = NegModP(N121665)
  /\ EDWARDS_D2 = AddModP(EDWARDS_D, EDWARDS_D)
  /\ ONE_MINUS_EDWARDS_D_SQUARED = SubModP(ONE, MulModP(EDWARDS_D, EDWARDS_D))
  /\ EDWARDS_D_MINUS_ONE_SQUARED =
       MulModP(SubModP(EDWARDS_D, ONE), SubModP(EDWARDS_D, ONE))
  /\ MulModP(SQRT_AD_MINUS_ONE, SQRT_AD_MINUS_ONE) = SubModP(NegModP(EDWARDS_D), ONE)
  /\ MulModP(MulModP(INVSQRT_A_MINUS_D, INVSQRT_A_MINUS_D),
             SubModP(NegModP(ONE), EDWARDS_D)) = ONE
  /\ MulModP(SQRT_M1, SQRT_M1) = NegModP(ONE)
  /\ APLUS2_OVER_FOUR = N121666
  /\ MulModP(N4, APLUS2_OVER_FOUR) = N486664
  /\ N486664 = add_small(N486662, 2)
  /\ MONTGOMERY_A = N486662
  /\ MONTGOMERY_A_NEG = Diff(P, N486662)
  /\ MINUS_ONE = Diff(P, ONE)
  /\ \A c \in {EDWARDS_D, EDWARDS_D2, ONE_MINUS_EDWARDS_D_SQUARED,
               EDWARDS_D_MINUS_ONE_SQUARED, SQRT_AD_MINUS_ONE, INVSQRT_A_MINUS_D,
               SQRT_M1, APLUS2_OVER_FOUR, MONTGOMERY_A, MONTGOMERY_A_NEG,
               MINUS_ONE} : InField(c)

---------------------------------------------------------------------------
(* The twisted Edwards curve -x^2 + y^2 = 1 + d x^2 y^2 over the integers  *)
(* modulo p, in projective coordinates (X : Y : Z) for the affine point    *)
(* (X/Z, Y/Z), with the arithmetic modulo p above.                         *)

\* the neutral element (0, 1)
Identity == [X |-> ZERO, Y |-> ONE, Z |-> ONE]

\* the point of an EdwardsPoint, without its T
PointOf(e) == [X |-> e.X, Y |-> e.Y, Z |-> e.Z]

\* the addition law with a = -1: x3 = (x1 y2 + y1 x2) / (1 + d x1 x2 y1 y2),
\* y3 = (y1 y2 + x1 x2) / (1 - d x1 x2 y1 y2), cleared of denominators
EdwardsAdd(p1, p2) ==
  Bind(<<MulModP(p1.Z, p2.Z), MulModP(p1.X, p2.X), MulModP(p1.Y, p2.Y),
         MulModP(AddModP(p1.X, p1.Y), AddModP(p2.X, p2.Y))>>, LAMBDA m :
    Bind(<<MulModP(m[1], m[1]), MulModP(EDWARDS_D, MulModP(m[2], m[3]))>>, LAMBDA n :
      Bind(<<SubModP(n[1], n[2]), AddModP(n[1], n[2])>>, LAMBDA fg :
        [X |-> MulModP(MulModP(m[1], fg[1]), SubModP(SubModP(m[4], m[2]), m[3])),
         Y |-> MulModP(MulModP(m[1], fg[2]), AddModP(m[3], m[2])),
         Z |-> MulModP(fg[1], fg[2])])))

EdwardsDouble(p1) == Bind(p1, LAMBDA q : EdwardsAdd(q, q))

\* 2^n times the point
RECURSIVE TimesPowerOfTwo(_, _)
TimesPowerOfTwo(p1, n) ==
  IF n = 0 THEN p1 ELSE Bind(EdwardsDouble(p1), LAMBDA q : TimesPowerOfTwo(q, n - 1))

\* the two represent one affine point
SamePoint(p1, p2) ==
  /\ MulModP(p1.X, p2.Z) = MulModP(p2.X, p1.Z)
  /\ MulModP(p1.Y, p2.Z) = MulModP(p2.Y, p1.Z)

\* the EdwardsPoint is a point of the curve in extended coordinates:
\* X Y = Z T and -X^2 + Y^2 = Z^2 + d T^2
ValidExtended(e) ==
  /\ InField(e.X) /\ InField(e.Y) /\ InField(e.Z) /\ InField(e.T) /\ e.Z # ZERO
  /\ MulModP(e.X, e.Y) = MulModP(e.Z, e.T)
  /\ SubModP(MulModP(e.Y, e.Y), MulModP(e.X, e.X))
       = AddModP(MulModP(e.Z, e.Z), MulModP(EDWARDS_D, MulModP(e.T, e.T)))

\* the AffineNielsPoint n is (y + x, y - x, 2 d x y) of the affine point of p1
IsNielsOf(n, p1) ==
  /\ InField(n.y_plus_x) /\ InField(n.y_minus_x) /\ InField(n.xy2d)
  /\ MulModP(n.y_plus_x, p1.Z) = AddModP(p1.Y, p1.X)
  /\ MulModP(n.y_minus_x, p1.Z) = SubModP(p1.Y, p1.X)
  /\ MulModP(n.xy2d, MulModP(p1.Z, p1.Z))
       = MulModP(AddModP(EDWARDS_D, EDWARDS_D), MulModP(p1.X, p1.Y))

---------------------------------------------------------------------------
(* A reading of the fixed points and precomputed tables of constants.rs,   *)
(* one entry after the other. Next to the entry read (item) the cursor     *)
(* carries the multiple of the generating point that belongs at its place  *)
(* (acc), kept up by one addition per entry, and the point the current     *)
(* LookupTable is about (base).                                            *)

\* the reading starts at the first entry of one of the tables
TableInit ==
  /\ op = "init" /\ prev = "init" /\ lhs = ZERO /\ arg = 0 /\ out = <<>>
  /\ self = ZERO /\ rhs = ZERO /\ input = ZERO
  /\ carry7 = 0 /\ borrow = 0 /\ panicked = FALSE
  /\ origin = "tables" /\ host = "cooperative" /\ budget = 0
  /\ debug_assertions = FALSE
  /\ cursor \in
       {[walk |-> "EIGHT_TORSION", table |-> 0, entry |-> 0,
         item |-> EIGHT_TORSION[1],
         base |-> PointOf(EIGHT_TORSION[2]), acc |-> Identity],
        [walk |-> "ED25519_BASEPOINT_TABLE", table |-> 0, entry |-> 1,
         item |-> ED25519_BASEPOINT_TABLE[1][1],
         base |-> PointOf(ED25519_BASEPOINT_POINT),
         acc |-> PointOf(ED25519_BASEPOINT_POINT)],
        [walk |-> "AFFINE_ODD_MULTIPLES_OF_BASEPOINT", table |-> 0, entry |-> 0,
         item |-> AFFINE_ODD_MULTIPLES_OF_BASEPOINT[1],
         base |-> EdwardsDouble(PointOf(ED25519_BASEPOINT_POINT)),
         acc |-> PointOf(ED25519_BASEPOINT_POINT)]}

TableUnchanged ==
  UNCHANGED <<self, rhs, op, lhs, prev, arg, input, out, carry7, borrow, panicked,
              host, origin, budget, debug_assertions>>

\* EIGHT_TORSION[entry + 1]; past the last entry the reading is back at entry 0
NextTorsion ==
  /\ cursor.walk = "EIGHT_TORSION" /\ cursor.entry < 8
  /\ cursor' = [cursor EXCEPT !.entry = @ + 1,
                              !.item = EIGHT_TORSION[((cursor.entry + 1) % 8) + 1],
                              !.acc = EdwardsAdd(cursor.acc, cursor.base)]
  /\ TableUnchanged

\* the next AffineNielsPoint of the current LookupTable
NextEntry ==
  /\ cursor.walk = "ED25519_BASEPOINT_TABLE" /\ cursor.entry < 8
  /\ cursor' = [cursor EXCEPT !.entry = @ + 1,
                  !.item = ED25519_BASEPOINT_TABLE[cursor.table + 1][cursor.entry + 1],
                  !.acc = EdwardsAdd(cursor.acc, cursor.base)]
  /\ TableUnchanged

\* the first AffineNielsPoint of the next LookupTable
NextTable ==
  /\ cursor.walk = "ED25519_BASEPOINT_TABLE" /\ cursor.entry = 8
  /\ cursor.table + 1 < Len(ED25519_BASEPOINT_TABLE)
  /\ \E b \in {TimesPowerOfTwo(cursor.base, 8)} :
       cursor' = [cursor EXCEPT !.table = @ + 1, !.entry = 1,
                    !.item = ED25519_BASEPOINT_TABLE[cursor.table + 2][1],
                    !.base = b, !.acc = b]
  /\ TableUnchanged

\* the next AffineNielsPoint of the NafLookupTable8
NextOddMultiple ==
  /\ cursor.walk = "AFFINE_ODD_MULTIPLES_OF_BASEPOINT"
  /\ cursor.entry + 1 < Len(AFFINE_ODD_MULTIPLES_OF_BASEPOINT)
  /\ cursor' = [cursor EXCEPT !.entry = @ + 1,
                  !.item = AFFINE_ODD_MULTIPLES_OF_BASEPOINT[cursor.entry + 2],
                  !.acc = EdwardsAdd(cursor.acc, cursor.base)]
  /\ TableUnchanged

TableNext == NextTorsion \/ NextEntry \/ NextTable \/ NextOddMultiple

TableSpec == TableInit /\ [][TableNext]_vars

---------------------------------------------------------------------------
(* Properties of the fixed points and the precomputed tables.              *)

N5 == FromDecimal(<<5>>, 1, U256_ZERO)

\* the base point is a point of the curve with Z = 1 and y = 4/5
BasepointValid ==
  /\ ValidExtended(ED25519_BASEPOINT_POINT)
  /\ ED25519_BASEPOINT_POINT.Z = ONE
  /\ MulModP(N5, ED25519_BASEPOINT_POINT.Y) = N4

\* C21: every fixed EdwardsPoint constant is a valid extended-coordinate curve
\* point: for ED25519_BASEPOINT_POINT and each of the 8 EIGHT_TORSION entries,
\* X Y = Z T and -X^2 + Y^2 = Z^2 + d T^2 (mod p); the base point has Z = 1 and
\* 5 Y = 4 (mod p).
C21_ValidPoints ==
  (origin = "tables") =>
    /\ BasepointValid
    /\ Len(EIGHT_TORSION) = 8
    /\ (cursor.walk = "EIGHT_TORSION") => ValidExtended(cursor.item)

\* the last of the eight-torsion points has been read, a point with no
\* coordinate zero
C21_Witness ==
  /\ cursor.walk = "EIGHT_TORSION" /\ cursor.entry = 7
  /\ cursor.item = EIGHT_TORSION[8]
  /\ cursor.item.X # ZERO /\ cursor.item.Y # ZERO /\ cursor.item.T # ZERO

\* C22: the eight-torsion table is the cyclic group generated by its entry 1:
\* for every i in 0..7, EIGHT_TORSION[i] = i * EIGHT_TORSION[1] under the
\* twisted Edwards addition law (a = -1, d = EDWARDS_D); entry 0 is the
\* identity (0, 1); 8 * EIGHT_TORSION[1] is the identity; the entries of order
\* dividing 4 are exactly those of index 0, 2, 4, 6 and those of order dividing
\* 2 exactly those of index 0, 4 (entry 4 = (0, -1)).
C22_EightTorsionCyclic ==
  (cursor.walk = "EIGHT_TORSION") =>
    /\ SamePoint(PointOf(cursor.item), cursor.acc)
    /\ (cursor.entry = 0) =>
         cursor.item.X = ZERO /\ cursor.item.Y = ONE /\ cursor.item.Z = ONE
    /\ (cursor.entry = 8) => SamePoint(cursor.acc, Identity)
    /\ (cursor.entry = 4) =>
         cursor.item.X = ZERO /\ cursor.item.Y = MINUS_ONE /\ cursor.item.Z = ONE
    /\ (cursor.entry < 8) =>
         /\ SamePoint(TimesPowerOfTwo(PointOf(cursor.item), 2), Identity)
              <=> cursor.entry \in {0, 2, 4, 6}
         /\ SamePoint(TimesPowerOfTwo(PointOf(cursor.item), 1), Identity)
              <=> cursor.entry \in {0, 4}

\* eight additions of entry 1 have come back to the identity
C22_Witness ==
  /\ cursor.walk = "EIGHT_TORSION" /\ cursor.entry = 8
  /\ cursor.item = EIGHT_TORSION[1]
  /\ SamePoint(cursor.acc, Identity)

\* n times the point, for a small n >= 1, one addition at a time
RECURSIVE Times(_, _)
Times(n, p1) ==
  IF n = 1 THEN p1 ELSE Bind(Times(n - 1, p1), LAMBDA q : EdwardsAdd(q, p1))

C24_OddMultiples ==
  (cursor.walk = "AFFINE_ODD_MULTIPLES_OF_BASEPOINT") =>
    /\ Len(AFFINE_ODD_MULTIPLES_OF_BASEPOINT) = 64
    /\ cursor.item = AFFINE_ODD_MULTIPLES_OF_BASEPOINT[cursor.entry + 1]
    /\ IsNielsOf(cursor.item, cursor.acc)
    /\ (cursor.entry <= 3) =>
         /\ SamePoint(cursor.acc, Times(2 * cursor.entry + 1,
                                        PointOf(ED25519_BASEPOINT_POINT)))
         /\ cursor.item = ED25519_BASEPOINT_TABLE[1][2 * cursor.entry + 1]
    /\ (cursor.entry = 0) =>
         /\ cursor.item.y_plus_x
              = AddModP(ED25519_BASEPOINT_POINT.Y, ED25519_BASEPOINT_POINT.X)
         /\ cursor.item.y_minus_x
              = SubModP(ED25519_BASEPOINT_POINT.Y, ED25519_BASEPOINT_POINT.X)
         /\ cursor.item.xy2d
              = MulModP(EDWARDS_D2, MulModP(ED25519_BASEPOINT_POINT.X,
                                            ED25519_BASEPOINT_POINT.Y))

\* the last odd multiple, 127 B, has been read
C24_Witness ==
  /\ cursor.walk = "AFFINE_ODD_MULTIPLES_OF_BASEPOINT" /\ cursor.entry = 63
  /\ IsNielsOf(cursor.item, cursor.acc)

---------------------------------------------------------------------------
(* Properties of add_assign's carry chain and correction.                  *)

\* the steps of an addition that returns
AddShape ==
  <<"adc", "adc", "adc", "adc", "adc", "adc", "adc", "adc", "assert", "mask",
    "wrapping_sub">>

\* lhs + rhs + MODULUS_CORRECTION as an integer: 32 bytes and the carry out
SumWithCorrection ==
  Propagate([j \in 1..32 |-> lhs[j] + rhs[j] + MODULUS_CORRECTION[j]], 1, 0)

C26_CarryChainExact ==
  (op = "add") =>
    Bind(carry_chain(lhs, rhs), LAMBDA s :
      /\ from_limbs(<<s[1][1], s[2][1], s[3][1], s[4][1],
                      s[5][1], s[6][1], s[7][1], s[8][1]>>)
           = SubSeq(SumWithCorrection, 1, 32)
      /\ s[8][2] = <<SumWithCorrection[33], 0, 0, 0>>
      /\ \A i \in 1..7 :
           Propagate([j \in 1..4 |-> s[i][2][j] + limb(MODULUS_CORRECTION, i)[j]],
                     1, 0)[5] = 0
      /\ carry7 = SumWithCorrection[33]
      /\ panicked <=> carry7 >= 2
      /\ panicked <=> ~Less(add_u256(lhs, rhs), P \o <<1>>)
      /\ panicked => ~(InField(lhs) /\ InField(rhs))
      /\ panicked => self = SubSeq(SumWithCorrection, 1, 32))

\* an addition that overflowed twice, with a limb carry of 2 on its way
C26_Witness ==
  /\ op = "add" /\ panicked /\ carry7 = 2
  /\ carry_chain(lhs, rhs)[1][2] = <<2, 0, 0, 0>>

\* C27 as stated: add_assign normalizes its sum, so for every pair of 256-bit
\* operand values on which it returns (denormalized operands >= p included)
\* the value it leaves in self is in [0, p).
C27_AddNormalizes ==
  (op = "add" /\ ~panicked) => InField(self)

\* C27, amended: add_assign performs no modular multiply-by-one normalization
\* of its sum: its steps are the carry chain, the assertion, the mask multiply
\* and one subtraction. For every pair of 256-bit operand values on which it
\* returns, the value it leaves in self is a + b - carry7 * p, congruent to
\* a + b modulo p; it is in [0, p) when both operands are in [0, p) and can be
\* >= p when an operand is denormalized.
C27_AddCongruent ==
  (op = "add" /\ ~panicked) =>
    /\ add_assign_steps(lhs, rhs) = AddShape
    /\ self \o <<0>> = IF carry7 = 1 THEN Diff(add_u256(lhs, rhs), P \o <<0>>)
                       ELSE add_u256(lhs, rhs)
    /\ ModP(self) = AddModP(ModP(lhs), ModP(rhs))
    /\ (InField(lhs) /\ InField(rhs)) => InField(self)

\* an addition of a denormalized operand that returned a value >= p
C27_Witness ==
  /\ op = "add" /\ ~panicked /\ ~InField(self)
  /\ ModP(self) = AddModP(ModP(lhs), ModP(rhs))

---------------------------------------------------------------------------
(* Scalar addition and subtraction on unreduced operands.                  *)

\* C28 as stated: scalar add and sub are correct modulo L for every pair of
\* 256-bit inputs, unreduced values >= L included: add(a, b) = a + b (mod L)
\* and sub(a, b) = a - b (mod L).
C28_AddSubAnyInput ==
  (origin = "scalar" /\ op \in {"add", "sub"}) =>
    ModL(self) = IF op = "add" THEN AddModL(ModL(lhs), ModL(rhs))
                 ELSE SubModL(ModL(lhs), ModL(rhs))

\* C28, amended: scalar add and sub are correct modulo L on the ranges add_mod
\* and sub_mod assume, which hold all reduced inputs but not every pair of
\* 256-bit inputs: add(a, b) = a + b (mod L) exactly when a + b < 2^256 + L,
\* and it is the reduced value when a + b < 2 L; sub(a, b) = a - b (mod L)
\* exactly when b <= a + L, and it is the reduced value when a, b < L.
C28_AddSubInRange ==
  (origin = "scalar" /\ op \in {"add", "sub"}) =>
    /\ ~panicked
    /\ (op = "add") =>
         /\ Less(add_u256(lhs, rhs), GroupOrder \o <<1>>)
              <=> ModL(self) = AddModL(ModL(lhs), ModL(rhs))
         /\ Less(add_u256(lhs, rhs), add_u256(GroupOrder, GroupOrder))
              => self = AddModL(ModL(lhs), ModL(rhs))
    /\ (op = "sub") =>
         /\ ~Less(add_u256(lhs, GroupOrder), rhs \o <<0>>)
              <=> ModL(self) = SubModL(ModL(lhs), ModL(rhs))
         /\ (InOrder(lhs) /\ InOrder(rhs)) => self = SubModL(lhs, rhs)

\* a subtraction of unreduced operands that borrowed and is still congruent
C28_Witness ==
  /\ origin = "scalar" /\ op = "sub"
  /\ ~InOrder(lhs) /\ ~InOrder(rhs) /\ Less(lhs, rhs)
  /\ ModL(self) = SubModL(ModL(lhs), ModL(rhs))

---------------------------------------------------------------------------
(* The formula in the doc comment of ONE_MINUS_EDWARDS_D_SQUARED.          *)

\* C29: ONE_MINUS_EDWARDS_D_SQUARED equals (1 - d)^2 mod p, where d =
\* EDWARDS_D = -121665/121666 mod p, as its doc comment's formula states.
C29_OneMinusDAllSquared ==
  (origin \in {"constants", "raw"}) =>
    /\ MulModP(N121666, EDWARDS_D) = NegModP(N121665)
    /\ ONE_MINUS_EDWARDS_D_SQUARED
         = MulModP(SubModP(ONE, EDWARDS_D), SubModP(ONE, EDWARDS_D))

---------------------------------------------------------------------------
(* pow2k for every k, in builds with and without debug assertions.         *)

\* a pow2k whose loop starts from self: k squarings, none for k = 0
pow2k_from_self(slf, k, hs, debug) ==
  IF debug /\ ~(k > 0) THEN [val |-> slf, panic |-> TRUE]
  ELSE returned(IF k = 0 THEN slf ELSE pow2k(slf, k, hs))

\* FieldElementR0::pow2k with its debug_assert!(k > 0), which only a build with
\* debug assertions checks: [val, panic]
pow2k_build(slf, k, hs, debug) ==
  IF debug /\ ~(k > 0) THEN [val |-> slf, panic |-> TRUE]
  ELSE returned(pow2k(slf, k, hs))

BuildInit ==
  /\ op = "init" /\ prev = "init" /\ lhs = ZERO /\ arg = 0 /\ out = <<>>
  /\ carry7 = 0 /\ borrow = 0 /\ panicked = FALSE
  /\ rhs = ZERO /\ input = ZERO /\ cursor = NoCursor
  /\ origin = "build" /\ host \in Hosts
  /\ debug_assertions \in BOOLEAN
  /\ budget \in 1..MaxSteps
  /\ self \in FieldSamples(budget) \cup (IF budget = 1 THEN {P, U256_MAX} ELSE {})

\* a.pow2k(k), for any k a u32 can hold (up to MaxK); the first squaring is
\* made whatever k is
Pow2kBuild ==
  /\ Ready
  /\ \E k \in 0..MaxK : \E hs \in HostChoices(IF k = 0 THEN 1 ELSE k) :
     \E r \in {pow2k_build(self, k, hs, debug_assertions)} :
       /\ self' = r.val /\ panicked' = r.panic
       /\ Done("pow2k", k)
  /\ out' = <<>> /\ UNCHANGED <<input, carry7, borrow>>

BuildNext == Pow2kBuild \/ Square

BuildSpec == BuildInit /\ [][BuildNext]_vars

\* C30: pow2k always performs at least one squaring: the number of squarings
\* is max(k, 1), so when called with k = 0 in a build where debug assertions
\* are disabled it returns square(self) rather than self, and with debug
\* assertions enabled k = 0 aborts.
C30_Pow2kAtLeastOnce ==
  (origin = "build" /\ op = "pow2k") =>
    /\ panicked <=> (debug_assertions /\ arg = 0)
    /\ panicked => self = lhs
    /\ ~panicked =>
         Bind(IF arg > 1 THEN arg ELSE 1, LAMBDA n :
           /\ ModP(self) = PowModP(lhs, n)
           /\ (host = "cooperative") =>
                /\ self = Squarings(lhs, n)
                /\ (arg = 0) => self = square(lhs, 0))

\* pow2k(x, 0) in a build without debug assertions returned the square of x,
\* which is not x
C30_Witness ==
  /\ origin = "build" /\ op = "pow2k" /\ arg = 0
  /\ ~debug_assertions /\ ~panicked /\ host = "cooperative"
  /\ self = square(lhs, 0) /\ self # lhs

==========================================================================
